---- MODULE Spec2Model ----
(***************************************************************************)
(* Model of the Google Drive -> JSON snapshot synchronizer of              *)
(* src/database/gdrive_db.py.                                              *)
(*                                                                         *)
(* The remote store is a tree of nodes (folders and files) with a change   *)
(* log; a run of main() loads the snapshot and the resume token, applies   *)
(* the change feed event by event (index_game_folders, incremental mode)   *)
(* or walks the whole tree (full scan), updates the metadata, saves the    *)
(* snapshot and then the token.                                            *)
(*                                                                         *)
(* Python dicts keep insertion order and the code depends on it            *)
(* (build_id_maps: the last entry of an id wins), so a dict is modelled as *)
(* a sequence of records with unique `name` keys.                          *)
(***************************************************************************)
EXTENDS Integers, Sequences, FiniteSets, TLC

VARIABLES
    tree,              \* remote store: node id -> [name, parent, st]
    feed,              \* remote change log: sequence of changed node ids
    opsLeft,           \* remote changes still allowed (bound)
    dbFile,            \* OUTPUT_JSON on disk
    tokenFile,         \* CHANGE_TOKEN_FILE on disk
    credentials,       \* SERVICE_ACCOUNT_FILE exists
    pc,                \* position of the run in main()/index_game_folders
    runs,              \* runs that reached the save of the snapshot so far
    last_folders,      \* main: last_folders (shares its dicts with folder_structure)
    folder_structure,  \* index_game_folders: folder_structure
    use_changes,       \* index_game_folders: use_changes
    change_token,      \* main: change_token as loaded
    changes,           \* events of the poll not yet applied
    new_change_token,  \* index_game_folders: new_change_token
    maps,              \* dev_id_to_name, game_id_to_path, file_id_to_game
    new_changes,       \* index_game_folders: new_changes
    change_count,      \* index_game_folders: change_count
    hist,              \* history of the run (read by the properties only)
    retry,             \* execute_with_retries: the call in progress
    io,                \* save_database step by step, beside a reader of the file
    walk               \* find_game_and_path: the walk in progress

vars == <<tree, feed, opsLeft, dbFile, tokenFile, credentials, pc, runs, last_folders,
          folder_structure, use_changes, change_token, changes,
          new_change_token, maps, new_changes, change_count, hist, retry,
          io, walk>>

-----------------------------------------------------------------------------
(* Bounds *)

MaxRemoteOps == 2
MaxRuns == 2

(* Program constants *)

ROOT_FOLDER_ID == "root"
MaxSteps == 20
MaxRecent == 10
TrackedExt == {".zip", ".7z", ".rar", ".exe", ".txt", ".pdf", ".docx"}
IgnoreName == "Old"
MAX_RETRIES == 3
RETRY_DELAY_BASE == 1

(* The universe of remote nodes *)

NoParent == "none"
NoToken == 0
FolderIds == {"d1", "d2", "g1", "s1"}
FileIds == {"f1", "f2"}
Ids == FolderIds \cup FileIds
IdOrder == <<"d1", "d2", "g1", "s1", "f1", "f2">>

(* The remote changes explored: renames, moves, trashing, permanent deletion *)

RenameTo(id) ==
    CASE id = "d1" -> {"Old"}
      [] id = "s1" -> {"Old"}
      [] id = "f2" -> {"readme.md"}
      [] OTHER -> {}

MoveTo(id) ==
    CASE id = "d2" -> {"root"}
      [] id = "g1" -> {"d2"}
      [] id = "s1" -> {"d1"}
      [] id = "f1" -> {"s1"}
      [] OTHER -> {}

Trashable == {"f1", "g1"}
Deletable == {"f2"}

-----------------------------------------------------------------------------
(* Sequences and insertion-ordered dicts *)

Range(s) == {s[i] : i \in 1..Len(s)}

HasKey(d, k) == \E i \in 1..Len(d) : d[i].name = k

Get(d, k) == d[CHOOSE i \in 1..Len(d) : d[i].name = k]

\* d[k] = e : an existing key keeps its position, a new key goes last
Put(d, e) ==
    IF HasKey(d, e.name)
    THEN [i \in 1..Len(d) |-> IF d[i].name = e.name THEN e ELSE d[i]]
    ELSE Append(d, e)

\* d.pop(k) / del d[k]
Pop(d, k) == SelectSeq(d, LAMBDA e : e.name # k)

\* the last occurrence of each element, in order
DedupLast(s) ==
    LET keep(i) == \A j \in (i+1)..Len(s) : s[j] # s[i]
        idx == {i \in 1..Len(s) : keep(i)}
        F[i \in 0..Len(s)] ==
            IF i = 0 THEN <<>>
            ELSE IF i \in idx THEN Append(F[i-1], s[i]) ELSE F[i-1]
    IN F[Len(s)]

\* Path(name).suffix.lower() of the names of the universe
Suffix(name) ==
    CASE name = "patch.zip" -> ".zip"
      [] name = "patch_v2.zip" -> ".zip"
      [] name = "readme.md" -> ".md"
      [] OTHER -> ""

-----------------------------------------------------------------------------
(* The remote store as the Drive API shows it *)

Nodes == Ids \cup {ROOT_FOLDER_ID}

IsFolder(id) == id \in FolderIds \cup {ROOT_FOLDER_ID}

\* a node is reported trashed when it or one of its ancestors is in the trash
RECURSIVE Trashed(_, _)
Trashed(t, id) ==
    \/ t[id].st = "trashed"
    \/ /\ t[id].parent # NoParent
       /\ Trashed(t, t[id].parent)

\* the ancestors of a node (its parent, the parent's parent, ...)
RECURSIVE Ancestors(_, _)
Ancestors(t, id) ==
    IF t[id].parent = NoParent THEN {}
    ELSE {t[id].parent} \cup Ancestors(t, t[id].parent)

\* query "'<folder_id>' in parents and trashed=false [and mimeType = folder]"
list_files(t, folder_id, folders_only) ==
    SelectSeq(IdOrder, LAMBDA id :
        /\ t[id].st = "live"
        /\ t[id].parent = folder_id
        /\ ~Trashed(t, id)
        /\ (folders_only => IsFolder(id)))

FileRecord(id, name, path) ==
    [name |-> name, id |-> id, size |-> "Unknown",
     type |-> Suffix(name), path |-> path]

RECURSIVE recursive_list_files_with_path(_, _, _)
RECURSIVE ListItems(_, _, _)
\* the loop over the items of one folder
ListItems(t, items, current_path) ==
    IF items = <<>> THEN <<>>
    ELSE LET item == Head(items)
             rest == ListItems(t, Tail(items), current_path)
         IN IF IsFolder(item)
            THEN IF t[item].name = IgnoreName THEN rest
                 ELSE recursive_list_files_with_path(
                          t, item, Append(current_path, t[item].name)) \o rest
            ELSE IF Suffix(t[item].name) \in TrackedExt
                 THEN <<FileRecord(item, t[item].name,
                                   Append(current_path, t[item].name))>> \o rest
                 ELSE rest

recursive_list_files_with_path(t, folder_id, current_path) ==
    ListItems(t, list_files(t, folder_id, FALSE), current_path)

Reverse(s) == [i \in 1..Len(s) |-> s[Len(s) + 1 - i]]

Unresolved == [found |-> FALSE, parts |-> <<>>, game |-> NoParent]

\* the while loop of find_game_and_path; http_error: a parent lookup fails
RECURSIVE WalkUp(_, _, _, _, _, _)
WalkUp(t, current_id, game_ids, path_parts, steps, http_error) ==
    IF current_id # NoParent /\ current_id \notin game_ids /\ steps < MaxSteps
    THEN IF http_error \/ t[current_id].st = "gone" THEN Unresolved
         ELSE IF t[current_id].name = IgnoreName THEN Unresolved
         ELSE IF t[current_id].parent = NoParent THEN Unresolved
         ELSE WalkUp(t, t[current_id].parent, game_ids,
                     Append(path_parts, t[current_id].name), steps + 1, http_error)
    ELSE IF current_id \notin game_ids THEN Unresolved
         ELSE [found |-> TRUE, parts |-> Reverse(path_parts), game |-> current_id]

\* find_game_and_path without the walk up the parents
find_game_and_path_direct(t, start_parent_id, game_ids, http_error) ==
    IF start_parent_id \in game_ids
    THEN [found |-> TRUE, parts |-> <<>>, game |-> start_parent_id]
    ELSE Unresolved

find_game_and_path(t, start_parent_id, game_ids, http_error) ==
    WalkUp(t, start_parent_id, game_ids, <<>>, 0, http_error)

\* one entry of changes().list, with the state of the file at the poll
ChangeEvent(t, id) ==
    IF t[id].st = "gone"
    THEN [fileId |-> id, removed |-> TRUE, hasFile |-> FALSE, name |-> "",
          folder |-> IsFolder(id), parents |-> <<>>, trashed |-> FALSE]
    ELSE [fileId |-> id, removed |-> FALSE, hasFile |-> TRUE, name |-> t[id].name,
          folder |-> IsFolder(id),
          parents |-> IF t[id].parent = NoParent THEN <<>> ELSE <<t[id].parent>>,
          trashed |-> Trashed(t, id)]

\* the token the remote hands out now
StartPageToken(fd) == Len(fd) + 1

\* get_changes: every file changed since the token, once, latest state
get_changes(t, fd, token) ==
    LET ids == DedupLast(SubSeq(fd, token, Len(fd)))
    IN [changes |-> [i \in 1..Len(ids) |-> ChangeEvent(t, ids[i])],
        new_token |-> StartPageToken(fd)]

-----------------------------------------------------------------------------
(* IdentityIndex *)

MaxOf(S) == CHOOSE i \in S : \A j \in S : j <= i

GameEntries(devs) ==
    LET F[i \in 0..Len(devs)] ==
            IF i = 0 THEN <<>>
            ELSE F[i-1] \o [j \in 1..Len(devs[i].games) |->
                     [dev |-> devs[i].name, game |-> devs[i].games[j].name,
                      id |-> devs[i].games[j].id,
                      files |-> devs[i].games[j].files,
                      extra |-> devs[i].games[j].extra]]
    IN F[Len(devs)]

FileEntries(devs) ==
    LET G == GameEntries(devs)
        F[i \in 0..Len(G)] ==
            IF i = 0 THEN <<>>
            ELSE F[i-1] \o [j \in 1..Len(G[i].files) |->
                     [dev |-> G[i].dev, game |-> G[i].game,
                      id |-> G[i].files[j].id, file |-> G[i].files[j]]]
    IN F[Len(G)]

\* the value a dict built by successive assignment holds for id: the last one
LastEntry(entries, id) ==
    entries[MaxOf({i \in 1..Len(entries) : entries[i].id = id})]

build_id_maps(devs) ==
    LET G == GameEntries(devs)
        Fl == FileEntries(devs)
    IN [dev_id_to_name |->
            [id \in {devs[i].id : i \in 1..Len(devs)} |-> LastEntry(devs, id).name],
        game_id_to_path |->
            [id \in {G[i].id : i \in 1..Len(G)} |->
                <<LastEntry(G, id).dev, LastEntry(G, id).game>>],
        file_id_to_game |->
            [id \in {Fl[i].id : i \in 1..Len(Fl)} |->
                <<LastEntry(Fl, id).dev, LastEntry(Fl, id).game>>]]

-----------------------------------------------------------------------------
(* ChangeReconciler: the body of the loop over the changes *)

GamesOf(devs, dev_name) == Get(devs, dev_name).games

SetGames(devs, dev_name, games) ==
    [i \in 1..Len(devs) |->
        IF devs[i].name = dev_name THEN [devs[i] EXCEPT !.games = games] ELSE devs[i]]

FilesOf(devs, dev_name, game_name) == Get(GamesOf(devs, dev_name), game_name).files

SetFiles(devs, dev_name, game_name, files) ==
    LET games == GamesOf(devs, dev_name)
    IN SetGames(devs, dev_name,
           [j \in 1..Len(games) |->
               IF games[j].name = game_name
               THEN [games[j] EXCEPT !.files = files] ELSE games[j]])

WithoutId(files, id) == SelectSeq(files, LAMBDA f : f.id # id)

NewGame(name, id, files) == [name |-> name, id |-> id, files |-> files, extra |-> {}]

handle_deletion(id_, devs, m, log) ==
    IF id_ \in DOMAIN m.dev_id_to_name
    THEN LET name == m.dev_id_to_name[id_]
         IN [found |-> TRUE,
             developers |-> Pop(devs, name),
             new_changes |-> Append(log, <<"REMOVED DEVELOPER", name>>)]
    ELSE IF id_ \in DOMAIN m.game_id_to_path
    THEN LET dev == m.game_id_to_path[id_][1]
             name == m.game_id_to_path[id_][2]
         IN [found |-> TRUE,
             developers |-> SetGames(devs, dev, Pop(GamesOf(devs, dev), name)),
             new_changes |-> Append(log, <<"REMOVED GAME", dev, name>>)]
    ELSE IF id_ \in DOMAIN m.file_id_to_game
    THEN LET dev == m.file_id_to_game[id_][1]
             name == m.file_id_to_game[id_][2]
             files == FilesOf(devs, dev, name)
             removed == SelectSeq(files, LAMBDA f : f.id = id_)
         IN [found |-> TRUE,
             developers |-> SetFiles(devs, dev, name, WithoutId(files, id_)),
             new_changes |-> log \o [i \in 1..Len(removed) |->
                                 <<"REMOVED FILE", dev, name, removed[i].name>>]]
    ELSE [found |-> FALSE, developers |-> devs, new_changes |-> log]

\* lines 328-333: permanent deletion or trashed
RemovalEvent(change, rs) ==
    LET r == handle_deletion(change.fileId, rs.developers, rs.maps, rs.new_changes)
    IN IF r.found
       THEN [rs EXCEPT !.developers = r.developers,
                       !.new_changes = r.new_changes,
                       !.maps = build_id_maps(r.developers),
                       !.change_count = @ + 1]
       ELSE rs

\* KnownDeveloperEvent with a rename taken as the removal of the old developer
\* and the arrival of a new, empty one
KnownDeveloperEventAsNew(id_, name, parent, rs) ==
    LET old_name == rs.maps.dev_id_to_name[id_]
    IN IF parent # ROOT_FOLDER_ID
       THEN LET r == handle_deletion(id_, rs.developers, rs.maps, rs.new_changes)
            IN [rs EXCEPT !.developers = r.developers, !.new_changes = r.new_changes]
       ELSE IF old_name # name
       THEN [rs EXCEPT
               !.developers = Put(Pop(rs.developers, old_name),
                                  [name |-> name, id |-> id_, games |-> <<>>]),
               !.new_changes = Append(@, <<"RENAMED DEVELOPER", old_name, name>>),
               !.change_count = @ + 1]
       ELSE rs

\* lines 343-351: folder event for a known developer id
KnownDeveloperEvent(id_, name, parent, rs) ==
    LET old_name == rs.maps.dev_id_to_name[id_]
    IN IF parent # ROOT_FOLDER_ID
       THEN LET r == handle_deletion(id_, rs.developers, rs.maps, rs.new_changes)
            IN [rs EXCEPT !.developers = r.developers, !.new_changes = r.new_changes]
       ELSE IF old_name # name
       THEN LET dev == Get(rs.developers, old_name)
            IN [rs EXCEPT
                  !.developers = Put(Pop(rs.developers, old_name),
                                     [dev EXCEPT !.name = name, !.id = id_]),
                  !.new_changes = Append(@, <<"RENAMED DEVELOPER", old_name, name>>),
                  !.change_count = @ + 1]
       ELSE rs

\* lines 352-364: folder event for a known game id
KnownGameEvent(id_, name, parent, rs) ==
    LET old_dev == rs.maps.game_id_to_path[id_][1]
        old_name == rs.maps.game_id_to_path[id_][2]
    IN IF parent = NoParent \/ parent \notin DOMAIN rs.maps.dev_id_to_name
       THEN LET r == handle_deletion(id_, rs.developers, rs.maps, rs.new_changes)
            IN [rs EXCEPT !.developers = r.developers, !.new_changes = r.new_changes]
       ELSE LET new_dev == rs.maps.dev_id_to_name[parent]
            IN IF old_dev # new_dev \/ old_name # name
               THEN LET game_data == Get(GamesOf(rs.developers, old_dev), old_name)
                        popped == SetGames(rs.developers, old_dev,
                                      Pop(GamesOf(rs.developers, old_dev), old_name))
                    IN [rs EXCEPT
                          !.developers =
                              SetGames(popped, new_dev,
                                  Put(GamesOf(popped, new_dev),
                                      [game_data EXCEPT !.name = name, !.id = id_])),
                          !.new_changes = Append(@,
                              <<"MOVED/RENAMED GAME", old_dev, old_name, new_dev, name>>),
                          !.change_count = @ + 1]
               ELSE rs

\* ScanNewDeveloper without the scan: the developer arrives empty and its games
\* wait for events of their own
ScanNewDeveloperLazy(t, dev_name, game_folders, rs, k, fail_at) == rs

\* lines 376-387: the games of a new developer; remote call number k comes next,
\* remote call number fail_at raises
RECURSIVE ScanNewDeveloper(_, _, _, _, _, _)
ScanNewDeveloper(t, dev_name, game_folders, rs, k, fail_at) ==
    IF game_folders = <<>> THEN rs
    ELSE LET game_id == Head(game_folders)
             game_name == t[game_id].name
             logged == [rs EXCEPT !.new_changes = Append(@,
                           <<"ADDED GAME (new dev scan)", dev_name, game_name>>)]
         IN IF fail_at = k
            THEN [logged EXCEPT !.raised = TRUE]
            ELSE ScanNewDeveloper(t, dev_name, Tail(game_folders),
                     [logged EXCEPT
                        !.developers = SetGames(@, dev_name,
                            Put(GamesOf(@, dev_name),
                                NewGame(game_name, game_id,
                                    recursive_list_files_with_path(t, game_id, <<>>)))),
                        !.change_count = @ + 1],
                     k + 1, fail_at)

\* lines 365-403: folder event for an unknown id
NewFolderEvent(t, id_, name, parent, rs, fail_at) ==
    IF parent = ROOT_FOLDER_ID
    THEN LET added == [rs EXCEPT
                         !.new_changes = Append(@, <<"ADDED DEVELOPER", name>>),
                         !.developers = Put(@, [name |-> name, id |-> id_, games |-> <<>>]),
                         !.change_count = @ + 1]
         IN IF fail_at = 1
            THEN [added EXCEPT !.raised = TRUE]
            ELSE ScanNewDeveloper(t, name, list_files(t, id_, TRUE), added, 2, fail_at)
    ELSE IF parent \in DOMAIN rs.maps.dev_id_to_name
    THEN LET dev_name == rs.maps.dev_id_to_name[parent]
             logged == [rs EXCEPT !.new_changes = Append(@, <<"ADDED GAME", dev_name, name>>)]
         IN IF fail_at = 1
            THEN [logged EXCEPT !.raised = TRUE]
            ELSE [logged EXCEPT
                    !.developers = SetGames(@, dev_name,
                        Put(GamesOf(@, dev_name),
                            NewGame(name, id_,
                                recursive_list_files_with_path(t, id_, <<>>)))),
                    !.change_count = @ + 1]
    ELSE rs

\* lines 342-406: folder logic, with the rebuild of the maps that ends it
FolderEvent(t, change, rs, fail_at) ==
    LET id_ == change.fileId
        name == change.name
        parent == IF change.parents = <<>> THEN NoParent ELSE change.parents[1]
        after ==
            IF id_ \in DOMAIN rs.maps.dev_id_to_name
            THEN KnownDeveloperEvent(id_, name, parent, rs)
            ELSE IF id_ \in DOMAIN rs.maps.game_id_to_path
            THEN KnownGameEvent(id_, name, parent, rs)
            ELSE NewFolderEvent(t, id_, name, parent, rs, fail_at)
    IN IF after.raised THEN after
       ELSE [after EXCEPT !.maps = build_id_maps(after.developers)]

\* lines 408-450: file logic; http_error: a parent lookup of the ancestry walk fails
FileEvent(t, change, rs, http_error) ==
    LET id_ == change.fileId
        name == change.name
        cleaned ==
            IF id_ \in DOMAIN rs.maps.file_id_to_game
            THEN LET old_dev == rs.maps.file_id_to_game[id_][1]
                     old_game == rs.maps.file_id_to_game[id_][2]
                 IN [rs EXCEPT
                       !.developers = SetFiles(@, old_dev, old_game,
                           WithoutId(FilesOf(@, old_dev, old_game), id_)),
                       !.change_count = @ + 1]
            ELSE rs
    IN IF change.parents = <<>> THEN cleaned
       ELSE LET res == find_game_and_path(t, change.parents[1],
                           DOMAIN rs.maps.game_id_to_path, http_error)
            IN IF ~res.found THEN cleaned
               ELSE IF Suffix(name) \notin TrackedExt THEN cleaned
               ELSE LET dev_name == rs.maps.game_id_to_path[res.game][1]
                        game_name == rs.maps.game_id_to_path[res.game][2]
                        new_file == FileRecord(id_, name, Append(res.parts, name))
                        devs == SetFiles(cleaned.developers, dev_name, game_name,
                                    Append(FilesOf(cleaned.developers, dev_name, game_name),
                                           new_file))
                    IN [cleaned EXCEPT
                          !.developers = devs,
                          !.new_changes = Append(@, <<"UPDATED FILE", game_name, name>>),
                          !.change_count = @ + 1,
                          !.maps = build_id_maps(devs)]

\* one iteration of `for change in changes` (lines 323-450)
ApplyChange(t, change, rs, fail_at, http_error) ==
    IF change.removed \/ (change.hasFile /\ change.trashed)
    THEN RemovalEvent(change, rs)
    ELSE IF ~change.hasFile THEN rs
    ELSE IF change.folder THEN FolderEvent(t, change, rs, fail_at)
    ELSE FileEvent(t, change, rs, http_error)

\* the remote calls an event can make, for the choice of the one that fails
ListingCalls(t, change, m) ==
    IF change.removed \/ ~change.hasFile \/ change.trashed \/ ~change.folder THEN 0
    ELSE IF change.fileId \in DOMAIN m.dev_id_to_name \cup DOMAIN m.game_id_to_path THEN 0
    ELSE IF change.parents = <<ROOT_FOLDER_ID>>
         THEN 1 + Len(list_files(t, change.fileId, TRUE))
    ELSE IF change.parents # <<>> /\ change.parents[1] \in DOMAIN m.dev_id_to_name THEN 1
    ELSE 0

MakesLookup(change, m) ==
    /\ ~change.removed /\ change.hasFile /\ ~change.trashed /\ ~change.folder
    /\ change.parents # <<>>
    /\ change.parents[1] \notin DOMAIN m.game_id_to_path

-----------------------------------------------------------------------------
(* FullScanner and ExtraFieldMerger *)

\* lines 482-495: the games of one developer folder
RECURSIVE ScanGames(_, _, _, _)
ScanGames(t, devs, dev_name, game_folders) ==
    IF game_folders = <<>> THEN devs
    ELSE LET game_id == Head(game_folders)
         IN ScanGames(t,
                SetGames(devs, dev_name,
                    Put(GamesOf(devs, dev_name),
                        NewGame(t[game_id].name, game_id,
                            recursive_list_files_with_path(t, game_id, <<>>)))),
                dev_name, Tail(game_folders))

\* lines 473-495: the loop over the developer folders
RECURSIVE ScanDevelopers(_, _, _)
ScanDevelopers(t, devs, dev_folders) ==
    IF dev_folders = <<>> THEN devs
    ELSE LET dev_id == Head(dev_folders)
             dev_name == t[dev_id].name
             added == Put(devs, [name |-> dev_name, id |-> dev_id, games |-> <<>>])
         IN ScanDevelopers(t,
                ScanGames(t, added, dev_name, list_files(t, dev_id, TRUE)),
                Tail(dev_folders))

\* lines 466-495
scan(t) == ScanDevelopers(t, <<>>, list_files(t, ROOT_FOLDER_ID, TRUE))

\* dict.update on the extra fields: a set of <<key, value>>, one value per key
UpdateExtra(extra, new) ==
    {p \in extra : \A q \in new : q[1] # p[1]} \cup new

\* lines 500-517: game_id_to_extra of `prior`, applied to the games of `fresh`
merge(fresh, prior) ==
    LET P == GameEntries(prior)
        has == {P[i].id : i \in 1..Len(P)}
    IN [i \in 1..Len(fresh) |->
          [fresh[i] EXCEPT !.games =
              [j \in 1..Len(fresh[i].games) |->
                  LET game == fresh[i].games[j]
                  IN IF game.id \in has
                     THEN [game EXCEPT !.extra = UpdateExtra(@, LastEntry(P, game.id).extra)]
                     ELSE game]]]

\* lines 519-527: `recent_changes = recent_changes[-10:]` binds the local name
\* only; the list held by metadata is the extended one
update_metadata(metadata, log, count, now) ==
    LET extended == metadata.recent_changes \o log
        recent_changes ==
            IF Len(extended) > MaxRecent
            THEN SubSeq(extended, Len(extended) - MaxRecent + 1, Len(extended))
            ELSE extended
    IN [recent_changes |-> extended,
        version |-> IF count > 0 THEN now ELSE metadata.version]

-----------------------------------------------------------------------------
(* SnapshotStore *)

EmptySnapshot ==
    [developers |-> <<>>, metadata |-> [recent_changes |-> <<>>, version |-> 0]]

\* what OUTPUT_JSON can hold: a snapshot ("valid"), a JSON object without the
\* key developers ("nodevelopers": .get('developers', {}) reads it as empty), a
\* JSON value that is no object ("nonobject"), text that is no JSON ("invalid"),
\* a file that cannot be opened ("unreadable"), or nothing ("missing")
FileStates == {"valid", "nodevelopers", "nonobject", "invalid", "unreadable", "missing"}

is_valid_json(file) == file.state \notin {"missing", "unreadable", "invalid"}

\* load_last_folders without the validation and without the except branch:
\* whatever the file holds is the snapshot
load_last_folders_unguarded(file) ==
    IF file.state = "missing" THEN EmptySnapshot ELSE file.data

\* load_last_folders: the empty skeleton unless the file is valid JSON; open and
\* json.load raise on a file that cannot be read or parsed, data.get raises on a
\* value that is no object, and the except branch turns each into the skeleton
load_last_folders(file) ==
    IF ~is_valid_json(file) THEN EmptySnapshot
    ELSE IF file.state \in {"nonobject", "invalid", "unreadable", "missing"}
         THEN EmptySnapshot
    ELSE IF file.state = "nodevelopers"
         THEN [developers |-> <<>>, metadata |-> file.data.metadata]
    ELSE file.data

\* load_change_token: None for a missing or empty file
load_change_token(file) == file

\* authenticate_drive: whether it returns a service; it exits the process when
\* the credentials file is missing
authenticate_drive(file_exists) == file_exists

-----------------------------------------------------------------------------
(* Initial state: a synchronized installation *)

Node(name, parent, st) == [name |-> name, parent |-> parent, st |-> st]

InitTree ==
    [id \in Nodes |->
        CASE id = ROOT_FOLDER_ID -> Node("ROOT", NoParent, "live")
          [] id = "d1" -> Node("Acme", ROOT_FOLDER_ID, "live")
          [] id = "d2" -> Node("Beta", NoParent, "live")
          [] id = "g1" -> Node("Foo", "d1", "live")
          [] id = "s1" -> Node("sub", "g1", "live")
          [] id = "f1" -> Node("patch.zip", "g1", "live")
          [] id = "f2" -> Node("patch_v2.zip", "s1", "live")]

InitExtra == {<<"notes", "v1">>}

\* the snapshot of a full scan of InitTree, enriched by the operator
InitDevelopers ==
    LET fresh == scan(InitTree)
    IN [i \in 1..Len(fresh) |->
          [fresh[i] EXCEPT !.games =
              [j \in 1..Len(fresh[i].games) |->
                  [fresh[i].games[j] EXCEPT !.extra = InitExtra]]]]

FullRescanEntry == <<"FULL DATABASE RESCAN PERFORMED.">>

InitSnapshot ==
    [developers |-> InitDevelopers,
     metadata |-> [recent_changes |-> [i \in 1..MaxRecent |-> FullRescanEntry],
                   version |-> 0]]

\* loaded: the developers as loaded; tokenAtStart: the token file as the run
\* found it; polled: the token of the change poll; applied: changes applied;
\* failed: a remote call of the incremental mode failed for good; fellBack: the
\* except branch was taken; scanToken: the start token the full scan fetched;
\* saved: what save_database did; raised: where the exception that ended the
\* run left main; prev: the token found and the token polled by the run that
\* wrote the snapshot file, when that run was incremental with no failed call
NoRun == [tokenAtStart |-> NoToken, polled |-> NoToken]

NoHist ==
    [loaded |-> <<>>, tokenAtStart |-> NoToken, polled |-> NoToken, applied |-> 0,
     failed |-> FALSE, fellBack |-> FALSE, scanToken |-> NoToken, saved |-> "no",
     raised |-> "no", prev |-> NoRun]

\* what request.execute() can do at an attempt: return a response, raise an
\* HttpError with a status, or raise another exception (a socket error)
Outcomes ==
    {[kind |-> "response", status |-> 200]}
        \cup {[kind |-> "HttpError", status |-> st] : st \in {404, 429, 500, 503}}
        \cup {[kind |-> "error", status |-> 0]}

\* no call of execute_with_retries in progress
NoRetry == [responses |-> <<>>, attempt |-> 0, slept |-> <<>>, result |-> "none",
            response |-> 0]

\* no save_database in steps: the snapshot file exists, nobody holds it
NoIo == [platform |-> "none", save |-> "none", reader |-> "closed", target |-> "old",
         temp |-> FALSE, disturbed |-> FALSE, opens |-> 0]

\* no walk of find_game_and_path in progress
NoWalk == [game_ids |-> {}, start |-> NoParent, current_id |-> NoParent, steps |-> 0,
           path_parts |-> <<>>, http_error |-> FALSE, result |-> "none",
           segments |-> <<>>]

NoMaps == build_id_maps(<<>>)

Init ==
    /\ tree = InitTree
    /\ feed = <<>>
    /\ opsLeft = MaxRemoteOps
    /\ dbFile = [state |-> "valid", data |-> InitSnapshot]
    /\ tokenFile \in {NoToken, StartPageToken(<<>>)}
    /\ credentials \in BOOLEAN
    /\ pc = "idle"
    /\ runs = 0
    /\ last_folders = EmptySnapshot
    /\ folder_structure = EmptySnapshot
    /\ use_changes = FALSE
    /\ change_token = NoToken
    /\ changes = <<>>
    /\ new_change_token = NoToken
    /\ maps = NoMaps
    /\ new_changes = <<>>
    /\ change_count = 0
    /\ hist = NoHist
    /\ retry = NoRetry
    /\ io = NoIo
    /\ walk = NoWalk

-----------------------------------------------------------------------------
(* The remote store changes *)

remoteVars == <<tree, feed, opsLeft>>
diskVars == <<dbFile, tokenFile, credentials>>
helperVars == <<retry, io, walk>>
runVars == <<pc, runs, last_folders, folder_structure, use_changes, change_token,
             changes, new_change_token, maps, new_changes, change_count, hist>>

\* the run reads the remote store at the poll, in the listings and lookups of
\* the loop and in the full scan: a remote change is taken between two runs and
\* between two of these reads
Changed(id, node) ==
    /\ opsLeft > 0
    /\ pc \in {"idle", "apply", "fullscan", "scan"}
    /\ tree' = [tree EXCEPT ![id] = node]
    /\ feed' = Append(feed, id)
    /\ opsLeft' = opsLeft - 1
    /\ UNCHANGED <<diskVars, runVars, helperVars>>

RemoteRename ==
    \E id \in Ids :
        \E name \in RenameTo(id) :
            /\ tree[id].st = "live"
            /\ name # tree[id].name
            /\ Changed(id, [tree[id] EXCEPT !.name = name])

RemoteMove ==
    \E id \in Ids :
        \E p \in MoveTo(id) :
            /\ tree[id].st = "live"
            /\ p # id
            /\ p # tree[id].parent
            /\ p # NoParent => /\ tree[p].st = "live"
                               /\ id \notin Ancestors(tree, p)
            /\ Changed(id, [tree[id] EXCEPT !.parent = p])

RemoteTrash ==
    \E id \in Trashable :
        /\ tree[id].st = "live"
        /\ Changed(id, [tree[id] EXCEPT !.st = "trashed"])

\* permanent deletion, of a node without children
RemoteDelete ==
    \E id \in Deletable :
        /\ tree[id].st # "gone"
        /\ \A c \in Ids : tree[c].st # "gone" => tree[c].parent # id
        /\ Changed(id, [tree[id] EXCEPT !.st = "gone", !.parent = NoParent])

RemoteChange == RemoteRename \/ RemoteMove \/ RemoteTrash \/ RemoteDelete

-----------------------------------------------------------------------------
(* A run of main() *)

\* datetime.now() of this run
Now == runs + 1

Reconciler ==
    [developers |-> folder_structure.developers, maps |-> maps,
     new_changes |-> new_changes, change_count |-> change_count, raised |-> FALSE]

\* line 313 and line 456: dict.copy() is shallow, the copy holds the same
\* developers dict and the same metadata dict as last_folders
copy(snapshot) == snapshot

\* what last_folders reads after folder_structure["developers"] was mutated in
\* place: the developers dict is the one object both names hold
Shared(last, devs) == [last EXCEPT !.developers = devs]

\* the process is gone: its variables with it
ProcessEnds ==
    /\ pc' = "idle"
    /\ last_folders' = EmptySnapshot
    /\ folder_structure' = EmptySnapshot
    /\ use_changes' = FALSE
    /\ change_token' = NoToken
    /\ changes' = <<>>
    /\ new_change_token' = NoToken
    /\ maps' = NoMaps
    /\ new_changes' = <<>>
    /\ change_count' = 0
    /\ hist' = [NoHist EXCEPT !.prev = hist.prev]
    /\ UNCHANGED runs

\* an exception leaves main (or sys.exit(1) is called): the process stops with
\* an error
Raises ==
    /\ pc' = "failed"
    /\ last_folders' = EmptySnapshot
    /\ folder_structure' = EmptySnapshot
    /\ use_changes' = FALSE
    /\ change_token' = NoToken
    /\ changes' = <<>>
    /\ new_change_token' = NoToken
    /\ maps' = NoMaps
    /\ new_changes' = <<>>
    /\ change_count' = 0
    /\ hist' = [NoHist EXCEPT !.tokenAtStart = IF pc = "idle" THEN tokenFile
                                                ELSE hist.tokenAtStart,
                              !.fellBack = hist.fellBack,
                              !.raised = IF pc = "idle" THEN "auth" ELSE pc,
                              !.prev = hist.prev]

\* StartRun with the mode chosen on the token alone
StartRunOnToken ==
    /\ pc = "idle"
    /\ runs < MaxRuns
    /\ IF ~authenticate_drive(credentials)
       THEN Raises
       ELSE /\ LET loaded == load_last_folders(dbFile)
                   token == load_change_token(tokenFile)
                   incremental == token # NoToken
               IN /\ last_folders' = loaded
                  /\ change_token' = token
                  /\ use_changes' = incremental
                  /\ folder_structure' = copy(loaded)
                  /\ pc' = IF incremental THEN "poll" ELSE "fullscan"
                  /\ hist' = [NoHist EXCEPT !.loaded = loaded.developers,
                                            !.tokenAtStart = tokenFile,
                                            !.prev = hist.prev]
            /\ new_change_token' = NoToken
            /\ change_count' = 0
            /\ new_changes' = <<>>
            /\ changes' = <<>>
            /\ maps' = NoMaps
    /\ UNCHANGED <<helperVars, remoteVars, diskVars, runs>>

\* StartRun without the check of the credentials file
StartRunUnauthenticated ==
    /\ pc = "idle"
    /\ runs < MaxRuns
    /\ LET loaded == load_last_folders(dbFile)
           token == load_change_token(tokenFile)
           incremental == token # NoToken /\ loaded.developers # <<>>
       IN /\ last_folders' = loaded
          /\ change_token' = token
          /\ use_changes' = incremental
          /\ folder_structure' = copy(loaded)
          /\ pc' = IF incremental THEN "poll" ELSE "fullscan"
          /\ hist' = [NoHist EXCEPT !.loaded = loaded.developers,
                                    !.tokenAtStart = tokenFile,
                                    !.prev = hist.prev]
    /\ new_change_token' = NoToken
    /\ change_count' = 0
    /\ new_changes' = <<>>
    /\ changes' = <<>>
    /\ maps' = NoMaps
    /\ UNCHANGED <<helperVars, remoteVars, diskVars, runs>>

\* main, lines 536-549, and index_game_folders, lines 312-316
StartRun ==
    /\ pc = "idle"
    /\ runs < MaxRuns
    /\ IF ~authenticate_drive(credentials)
       THEN Raises
       ELSE /\ LET loaded == load_last_folders(dbFile)
                   token == load_change_token(tokenFile)
                   incremental == token # NoToken /\ loaded.developers # <<>>
               IN /\ last_folders' = loaded
                  /\ change_token' = token
                  /\ use_changes' = incremental
                  /\ folder_structure' = copy(loaded)
                  /\ pc' = IF incremental THEN "poll" ELSE "fullscan"
                  /\ hist' = [NoHist EXCEPT !.loaded = loaded.developers,
                                            !.tokenAtStart = tokenFile,
                                            !.prev = hist.prev]
            /\ new_change_token' = NoToken
            /\ change_count' = 0
            /\ new_changes' = <<>>
            /\ changes' = <<>>
            /\ maps' = NoMaps
    /\ UNCHANGED <<helperVars, remoteVars, diskVars, runs>>

\* lines 451-456: the except branch of the incremental mode
FallBack(devs, log) ==
    /\ use_changes' = FALSE
    /\ last_folders' = Shared(last_folders, devs)
    /\ folder_structure' = copy(last_folders')
    /\ new_changes' = log
    /\ pc' = "fullscan"

\* lines 317-321: the change poll
GetChanges ==
    /\ pc = "poll"
    /\ \E fails \in BOOLEAN :
         IF fails
         THEN /\ FallBack(folder_structure.developers, new_changes)
              /\ hist' = [hist EXCEPT !.failed = TRUE, !.fellBack = TRUE]
              /\ UNCHANGED <<changes, new_change_token, maps, change_count>>
         ELSE LET got == get_changes(tree, feed, change_token)
              IN /\ changes' = got.changes
                 /\ new_change_token' = got.new_token
                 /\ maps' = build_id_maps(folder_structure.developers)
                 /\ pc' = "apply"
                 /\ hist' = [hist EXCEPT !.polled = got.new_token]
                 /\ UNCHANGED <<last_folders, folder_structure, use_changes,
                                new_changes, change_count>>
    /\ UNCHANGED <<helperVars, remoteVars, diskVars, runs, change_token>>

\* lines 323-450: one change of the loop
ApplyNextChange ==
    /\ pc = "apply"
    /\ changes # <<>>
    /\ LET change == Head(changes)
       IN \E fail_at \in 0..ListingCalls(tree, change, maps) :
          \E http_error \in {FALSE} \cup {MakesLookup(change, maps)} :
            LET rs == ApplyChange(tree, change, Reconciler, fail_at, http_error)
            IN IF rs.raised
               THEN /\ FallBack(rs.developers, rs.new_changes)
                    /\ hist' = [hist EXCEPT !.failed = TRUE, !.fellBack = TRUE]
                    /\ UNCHANGED <<changes, maps, change_count>>
               ELSE /\ folder_structure' = [folder_structure EXCEPT
                                               !.developers = rs.developers]
                    /\ last_folders' = Shared(last_folders, rs.developers)
                    /\ maps' = rs.maps
                    /\ new_changes' = rs.new_changes
                    /\ change_count' = rs.change_count
                    /\ changes' = Tail(changes)
                    /\ hist' = [hist EXCEPT !.applied = @ + 1,
                                             !.failed = @ \/ http_error]
                    /\ UNCHANGED <<pc, use_changes>>
    /\ UNCHANGED <<helperVars, remoteVars, diskVars, runs, change_token, new_change_token>>

\* the loop is over
EndChanges ==
    /\ pc = "apply"
    /\ changes = <<>>
    /\ pc' = "metadata"
    /\ UNCHANGED <<helperVars, remoteVars, diskVars, runs, last_folders, folder_structure,
                   use_changes, change_token, changes, new_change_token, maps,
                   new_changes, change_count, hist>>

\* GetStartPageToken with the start token fetched only when the run holds no
\* token yet
GetStartPageTokenKeepsPolled ==
    /\ pc = "fullscan"
    /\ \E fails \in BOOLEAN :
         IF fails
         THEN Raises /\ UNCHANGED runs
         ELSE /\ new_change_token' = IF new_change_token # NoToken
                                     THEN new_change_token
                                     ELSE StartPageToken(feed)
              /\ folder_structure' = [folder_structure EXCEPT !.developers = <<>>]
              /\ pc' = "scan"
              /\ hist' = [hist EXCEPT !.scanToken = StartPageToken(feed)]
              /\ UNCHANGED <<runs, last_folders, use_changes, change_token, changes,
                             maps, new_changes, change_count>>
    /\ UNCHANGED <<helperVars, remoteVars, diskVars>>

\* lines 457-466: the start token of the full scan; a failure ends the run
GetStartPageToken ==
    /\ pc = "fullscan"
    /\ \E fails \in BOOLEAN :
         IF fails
         THEN Raises /\ UNCHANGED runs
         ELSE /\ new_change_token' = StartPageToken(feed)
              /\ folder_structure' = [folder_structure EXCEPT !.developers = <<>>]
              /\ pc' = "scan"
              /\ hist' = [hist EXCEPT !.scanToken = StartPageToken(feed)]
              /\ UNCHANGED <<runs, last_folders, use_changes, change_token, changes,
                             maps, new_changes, change_count>>
    /\ UNCHANGED <<helperVars, remoteVars, diskVars>>

\* ScanTree with the start token of the scan written to the token file when a
\* listing fails
ScanTreePersistsToken ==
    /\ pc = "scan"
    /\ \E fails \in BOOLEAN :
         IF fails
         THEN /\ Raises
              /\ tokenFile' = new_change_token
              /\ UNCHANGED <<runs, dbFile, credentials>>
         ELSE LET fresh == scan(tree)
              IN /\ folder_structure' = [folder_structure EXCEPT
                         !.developers = merge(fresh, last_folders.developers)]
                 /\ change_count' = Len(fresh)
                 /\ new_changes' = Append(new_changes, FullRescanEntry)
                 /\ pc' = "metadata"
                 /\ UNCHANGED <<runs, last_folders, use_changes, change_token,
                                changes, new_change_token, maps, hist, diskVars>>
    /\ UNCHANGED <<helperVars, remoteVars>>

\* lines 468-518: the tree walk and the merge of the extras; a failed listing
\* ends the run
ScanTree ==
    /\ pc = "scan"
    /\ \E fails \in BOOLEAN :
         IF fails
         THEN Raises /\ UNCHANGED runs
         ELSE LET fresh == scan(tree)
              IN /\ folder_structure' = [folder_structure EXCEPT
                         !.developers = merge(fresh, last_folders.developers)]
                 /\ change_count' = Len(fresh)
                 /\ new_changes' = Append(new_changes, FullRescanEntry)
                 /\ pc' = "metadata"
                 /\ UNCHANGED <<runs, last_folders, use_changes, change_token,
                                changes, new_change_token, maps, hist>>
    /\ UNCHANGED <<helperVars, remoteVars, diskVars>>

\* UpdateMetadata of a full scan that fetches its start page token after the
\* listings
UpdateMetadataFetchesToken ==
    /\ pc = "metadata"
    /\ LET metadata == update_metadata(folder_structure.metadata, new_changes,
                                       change_count, Now)
       IN /\ folder_structure' = [folder_structure EXCEPT !.metadata = metadata]
          /\ last_folders' = [last_folders EXCEPT !.metadata = metadata]
    /\ new_change_token' = IF use_changes THEN new_change_token ELSE StartPageToken(feed)
    /\ pc' = "save"
    /\ UNCHANGED <<helperVars, remoteVars, diskVars, runs, use_changes, change_token, changes,
                   maps, new_changes, change_count, hist>>

\* lines 519-533: the changelog and the version stamp
UpdateMetadata ==
    /\ pc = "metadata"
    /\ LET metadata == update_metadata(folder_structure.metadata, new_changes,
                                       change_count, Now)
       IN /\ folder_structure' = [folder_structure EXCEPT !.metadata = metadata]
          /\ last_folders' = [last_folders EXCEPT !.metadata = metadata]
    /\ pc' = "save"
    /\ UNCHANGED <<helperVars, remoteVars, diskVars, runs, use_changes, change_token, changes,
                   new_change_token, maps, new_changes, change_count, hist>>

\* what a write of the snapshot that got as far as `outcome` leaves at OUTPUT_JSON
\* (lines 259-265): the temp file is written, the target removed, the temp file
\* renamed
Written(file, snapshot, outcome) ==
    CASE outcome = "written" -> [state |-> "valid", data |-> snapshot]
      [] outcome = "removed" -> [state |-> "missing", data |-> EmptySnapshot]
      [] OTHER -> file

\* the run that writes the snapshot, for hist.prev
ThisRun ==
    IF hist.polled # NoToken /\ ~hist.failed /\ ~hist.fellBack
    THEN [tokenAtStart |-> hist.tokenAtStart, polled |-> hist.polled]
    ELSE NoRun

\* SaveDatabase with the token written before the snapshot
SaveDatabaseAfterToken ==
    /\ pc = "save"
    /\ tokenFile' = IF new_change_token # NoToken THEN new_change_token ELSE tokenFile
    /\ \E outcome \in {"written", "locked", "error", "removed"} :
         /\ outcome \in {"locked", "removed"} => dbFile.state # "missing"
         /\ dbFile' = Written(dbFile, folder_structure, outcome)
         /\ runs' = IF outcome = "error" THEN runs ELSE runs + 1
         /\ IF outcome \in {"error", "removed"}
            THEN Raises
            ELSE /\ pc' = "token"
                 /\ hist' = [hist EXCEPT !.saved = outcome,
                                          !.prev = IF outcome = "written" THEN ThisRun
                                                   ELSE @]
                 /\ UNCHANGED <<last_folders, folder_structure, use_changes,
                                change_token, changes, new_change_token, maps,
                                new_changes, change_count>>
    /\ UNCHANGED <<helperVars, remoteVars, credentials>>

\* save_database (line 551). locked: the write is skipped; error: an exception
\* before the target is touched; removed: an exception, or the end of the
\* process, between os.remove and os.rename; an exception is raised again and
\* ends the run
SaveDatabase ==
    /\ pc = "save"
    /\ \E outcome \in {"written", "locked", "error", "removed"} :
         /\ outcome \in {"locked", "removed"} => dbFile.state # "missing"
         /\ dbFile' = Written(dbFile, folder_structure, outcome)
         /\ runs' = IF outcome = "error" THEN runs ELSE runs + 1
         /\ IF outcome \in {"error", "removed"}
            THEN Raises
            ELSE /\ pc' = "token"
                 /\ hist' = [hist EXCEPT !.saved = outcome,
                                          !.prev = IF outcome = "written" THEN ThisRun
                                                   ELSE @]
                 /\ UNCHANGED <<last_folders, folder_structure, use_changes,
                                change_token, changes, new_change_token, maps,
                                new_changes, change_count>>
    /\ UNCHANGED <<helperVars, remoteVars, tokenFile, credentials>>

\* lines 553-555
SaveChangeToken ==
    /\ pc = "token"
    /\ tokenFile' = IF new_change_token # NoToken THEN new_change_token ELSE tokenFile
    /\ pc' = "done"
    /\ UNCHANGED <<helperVars, remoteVars, dbFile, credentials, runs, last_folders,
                   folder_structure, use_changes, change_token, changes,
                   new_change_token, maps, new_changes, change_count, hist>>

\* main returns, or the process that stopped with an error is gone
Exit ==
    /\ pc \in {"done", "failed"}
    /\ ProcessEnds
    /\ UNCHANGED <<helperVars, remoteVars, diskVars>>

\* the process is killed
Kill ==
    /\ pc \notin {"idle", "done", "failed"}
    /\ ProcessEnds
    /\ UNCHANGED <<helperVars, remoteVars, diskVars>>

Run ==
    \/ StartRun
    \/ GetChanges
    \/ ApplyNextChange
    \/ EndChanges
    \/ GetStartPageToken
    \/ ScanTree
    \/ UpdateMetadata
    \/ SaveDatabase
    \/ SaveChangeToken
    \/ Exit
    \/ Kill

Next == RemoteChange \/ Run

Spec == Init /\ [][Next]_vars

-----------------------------------------------------------------------------
(* The change poll in pages, with uploads: a second specification *)

\* remote changes of a behaviour of EventSpec
MaxEvents == 3

\* the scenario: Acme (d1) -> Foo (g1) -> patch.zip (f1); patch_v2.zip (f2) is
\* not uploaded yet, its folder sub (s1) exists or not
ScenarioTree(sub_exists) ==
    [InitTree EXCEPT !["f2"].st = "gone",
                     !["s1"].st = IF sub_exists THEN "live" ELSE "gone"]

\* the snapshot of a full scan of the scenario, enriched by the operator
ScenarioDevelopers ==
    LET fresh == scan(ScenarioTree(FALSE))
    IN [i \in 1..Len(fresh) |->
          [fresh[i] EXCEPT !.games =
              [j \in 1..Len(fresh[i].games) |->
                  [fresh[i].games[j] EXCEPT !.extra = InitExtra]]]]

EventInit ==
    /\ \E sub_exists \in BOOLEAN : tree = ScenarioTree(sub_exists)
    /\ feed = <<>>
    /\ opsLeft = MaxEvents
    /\ dbFile = [state |-> "valid",
                 data |-> [InitSnapshot EXCEPT !.developers = ScenarioDevelopers]]
    /\ tokenFile = StartPageToken(<<>>)
    /\ credentials = TRUE
    /\ pc = "idle"
    /\ runs = 0
    /\ last_folders = EmptySnapshot
    /\ folder_structure = EmptySnapshot
    /\ use_changes = FALSE
    /\ change_token = NoToken
    /\ changes = <<>>
    /\ new_change_token = NoToken
    /\ maps = NoMaps
    /\ new_changes = <<>>
    /\ change_count = 0
    /\ hist = NoHist
    /\ retry = NoRetry
    /\ io = NoIo
    /\ walk = NoWalk

\* a remote change, taken also between two pages of the poll
ChangedAnytime(id, node) ==
    /\ opsLeft > 0
    /\ pc \in {"idle", "poll", "apply"}
    /\ tree' = [tree EXCEPT ![id] = node]
    /\ feed' = Append(feed, id)
    /\ opsLeft' = opsLeft - 1
    /\ UNCHANGED <<diskVars, runVars, helperVars>>

\* upload of a file, creation of a folder
RemoteCreate ==
    \E id \in {"s1", "f2"} :
        /\ tree[id].st = "gone"
        /\ tree[tree[id].parent].st = "live"
        /\ ChangedAnytime(id, [tree[id] EXCEPT !.st = "live"])

RemoteTrashAnytime ==
    \E id \in {"f1", "s1"} :
        /\ tree[id].st = "live"
        /\ ChangedAnytime(id, [tree[id] EXCEPT !.st = "trashed"])

RemoteRenameAnytime ==
    /\ tree["f1"].st = "live"
    /\ tree["f1"].name # "readme.md"
    /\ ChangedAnytime("f1", [tree["f1"] EXCEPT !.name = "readme.md"])

\* permanent deletion from the trash
RemoteDeleteAnytime ==
    /\ tree["f1"].st = "trashed"
    /\ ChangedAnytime("f1", [tree["f1"] EXCEPT !.st = "gone", !.parent = NoParent])

\* the place of the last occurrence of id in the change log
LastIndex(fd, id) == MaxOf({i \in 1..Len(fd) : fd[i] = id})

\* get_changes, lines 188-203, one request of the loop: a page holds the next
\* changes of the log in the state the files are in at the request; the remote
\* hands out nextPageToken while changes remain and newStartPageToken with the
\* last page. change_token is the page token of the loop here.
GetChangesPage ==
    /\ pc = "poll"
    /\ \E fails \in BOOLEAN :
         IF fails
         THEN /\ FallBack(folder_structure.developers, new_changes)
              /\ hist' = [hist EXCEPT !.failed = TRUE, !.fellBack = TRUE]
              /\ UNCHANGED <<changes, new_change_token, maps, change_count,
                             change_token>>
         ELSE LET ids == DedupLast(SubSeq(feed, change_token, Len(feed)))
              IN \E n \in IF ids = <<>> THEN {0} ELSE 1..Len(ids) :
                   LET page_changes == [i \in 1..n |-> ChangeEvent(tree, ids[i])]
                       nextPageToken == n < Len(ids)
                   IN /\ changes' = changes \o page_changes
                      /\ change_token' = IF n = 0 THEN StartPageToken(feed)
                                         ELSE LastIndex(feed, ids[n]) + 1
                      /\ IF nextPageToken
                         THEN UNCHANGED <<pc, new_change_token, maps, hist>>
                         ELSE /\ new_change_token' = StartPageToken(feed)
                              /\ maps' = build_id_maps(folder_structure.developers)
                              /\ pc' = "apply"
                              /\ hist' = [hist EXCEPT
                                             !.polled = StartPageToken(feed)]
                      /\ UNCHANGED <<last_folders, folder_structure, use_changes,
                                     new_changes, change_count>>
    /\ UNCHANGED <<helperVars, remoteVars, diskVars, runs>>

EventNext ==
    \/ RemoteCreate
    \/ RemoteTrashAnytime
    \/ RemoteRenameAnytime
    \/ RemoteDeleteAnytime
    \/ StartRun
    \/ GetChangesPage
    \/ ApplyNextChange
    \/ EndChanges
    \/ GetStartPageToken
    \/ ScanTree
    \/ UpdateMetadata
    \/ SaveDatabase
    \/ SaveChangeToken
    \/ Exit
    \/ Kill

EventSpec == EventInit /\ [][EventNext]_vars

-----------------------------------------------------------------------------
(* Every state of the files at the start of a run: a third specification *)

\* remote changes of a behaviour of LoadSpec
MaxLoadOps == 1

\* what the snapshot file holds in each state; a damaged file still holds the
\* bytes of the snapshot it was
Holds(st) ==
    [state |-> st,
     data |-> CASE st = "missing" -> EmptySnapshot
                [] st = "nodevelopers" -> [InitSnapshot EXCEPT !.developers = <<>>]
                [] OTHER -> InitSnapshot]

LoadInit ==
    /\ tree = InitTree
    /\ feed = <<>>
    /\ opsLeft = MaxLoadOps
    /\ dbFile \in {Holds(st) : st \in FileStates}
    /\ tokenFile \in {NoToken, StartPageToken(<<>>)}
    /\ credentials \in BOOLEAN
    /\ pc = "idle"
    /\ runs = 0
    /\ last_folders = EmptySnapshot
    /\ folder_structure = EmptySnapshot
    /\ use_changes = FALSE
    /\ change_token = NoToken
    /\ changes = <<>>
    /\ new_change_token = NoToken
    /\ maps = NoMaps
    /\ new_changes = <<>>
    /\ change_count = 0
    /\ hist = NoHist
    /\ retry = NoRetry
    /\ io = NoIo
    /\ walk = NoWalk

LoadSpec == LoadInit /\ [][Next]_vars

-----------------------------------------------------------------------------
(* Three remote changes before a run and its re-run: a fourth specification *)

\* remote changes of a behaviour of RerunSpec
MaxRerunOps == 3

RerunInit ==
    /\ tree = InitTree
    /\ feed = <<>>
    /\ opsLeft = MaxRerunOps
    /\ dbFile = [state |-> "valid", data |-> InitSnapshot]
    /\ tokenFile = StartPageToken(<<>>)
    /\ credentials = TRUE
    /\ pc = "idle"
    /\ runs = 0
    /\ last_folders = EmptySnapshot
    /\ folder_structure = EmptySnapshot
    /\ use_changes = FALSE
    /\ change_token = NoToken
    /\ changes = <<>>
    /\ new_change_token = NoToken
    /\ maps = NoMaps
    /\ new_changes = <<>>
    /\ change_count = 0
    /\ hist = NoHist
    /\ retry = NoRetry
    /\ io = NoIo
    /\ walk = NoWalk

RerunSpec == RerunInit /\ [][Next]_vars

-----------------------------------------------------------------------------
(* A game folder that leaves the shared tree or takes another name: an *)
(* eighth specification                                              *)

\* game folder g1 is moved to a place outside the tree the service account
\* sees: the event carries no parent
RemoteMoveOut ==
    /\ tree["g1"].st = "live"
    /\ tree["g1"].parent # NoParent
    /\ Changed("g1", [tree["g1"] EXCEPT !.parent = NoParent])

\* game folder g1 is given another name
RemoteRenameGame ==
    /\ tree["g1"].st = "live"
    /\ tree["g1"].name # "Foo Remastered"
    /\ Changed("g1", [tree["g1"] EXCEPT !.name = "Foo Remastered"])

MoveOutSpec == RerunInit /\ [][Next \/ RemoteMoveOut \/ RemoteRenameGame]_vars

-----------------------------------------------------------------------------
(* execute_with_retries, one request: a fifth specification *)

\* the attempts for which the behaviour of the remote is drawn
MaxResponses == 4

\* 2 ** n
RECURSIVE Pow2(_)
Pow2(n) == IF n = 0 THEN 1 ELSE 2 * Pow2(n - 1)

\* Attempt with a retried status retried as long as the remote fails
AttemptUnbounded ==
    /\ retry.result = "pending"
    /\ IF retry.attempt >= MaxResponses
       THEN retry' = [retry EXCEPT !.result = "raised"]
       ELSE LET outcome == retry.responses[retry.attempt + 1]
            IN IF outcome.kind = "response"
               THEN retry' = [retry EXCEPT !.attempt = @ + 1,
                                           !.result = "returned",
                                           !.response = retry.attempt + 1]
               ELSE IF /\ outcome.kind = "HttpError"
                       /\ outcome.status \in {429, 500}
               THEN retry' = [retry EXCEPT
                                !.attempt = @ + 1,
                                !.slept = Append(@, RETRY_DELAY_BASE
                                                       * Pow2(retry.attempt))]
               ELSE retry' = [retry EXCEPT !.attempt = @ + 1, !.result = "raised"]
    /\ UNCHANGED <<remoteVars, diskVars, runVars, io, walk>>

\* lines 85-99: one pass of `for attempt in range(MAX_RETRIES)`; line 100 when
\* the loop runs out
Attempt ==
    /\ retry.result = "pending"
    /\ IF retry.attempt >= MAX_RETRIES
       THEN retry' = [retry EXCEPT !.result = "raised"]
       ELSE LET outcome == retry.responses[retry.attempt + 1]
            IN IF outcome.kind = "response"
               THEN retry' = [retry EXCEPT !.attempt = @ + 1,
                                           !.result = "returned",
                                           !.response = retry.attempt + 1]
               ELSE IF /\ outcome.kind = "HttpError"
                       /\ outcome.status \in {429, 500}
                       /\ retry.attempt < MAX_RETRIES - 1
               THEN retry' = [retry EXCEPT
                                !.attempt = @ + 1,
                                !.slept = Append(@, RETRY_DELAY_BASE
                                                       * Pow2(retry.attempt))]
               ELSE retry' = [retry EXCEPT !.attempt = @ + 1, !.result = "raised"]
    /\ UNCHANGED <<remoteVars, diskVars, runVars, io, walk>>

\* the sequences of length n over S
Tuples(S, n) == [1..n -> S]

RetryInit ==
    /\ retry \in {[NoRetry EXCEPT !.responses = r, !.result = "pending"] :
                     r \in Tuples(Outcomes, MaxResponses)}
    /\ tree = InitTree
    /\ feed = <<>>
    /\ opsLeft = 0
    /\ dbFile = [state |-> "valid", data |-> InitSnapshot]
    /\ tokenFile = NoToken
    /\ credentials = TRUE
    /\ pc = "scan"
    /\ runs = 0
    /\ last_folders = EmptySnapshot
    /\ folder_structure = EmptySnapshot
    /\ use_changes = FALSE
    /\ change_token = NoToken
    /\ changes = <<>>
    /\ new_change_token = NoToken
    /\ maps = NoMaps
    /\ new_changes = <<>>
    /\ change_count = 0
    /\ hist = NoHist
    /\ io = NoIo
    /\ walk = NoWalk

RetryNext == Attempt

RetrySpec == RetryInit /\ [][RetryNext]_vars

\* the helper runs in the one thread of the process: a pass that can be made
\* is made
RetryFairSpec == RetrySpec /\ WF_vars(Attempt)

-----------------------------------------------------------------------------
(* save_database step by step beside a reader: a seventh specification *)

\* times the reader opens the snapshot file in a behaviour of SaveSpec
MaxOpens == 2

\* where the program runs: Windows with pywin32 (the import of lines 21-25
\* succeeds), Windows without it, a POSIX system (win32file is None)
Platforms == {"windows+pywin32", "windows", "posix"}

\* the reader holds the snapshot file open
Holding == io.reader \in {"open", "read"}

\* another process reads the snapshot: `with open(path, 'r') as f:
\* json.load(f)`, as minify_db.py and the client do
Reader ==
    /\ io.save # "none"
    /\ \/ /\ io.reader = "closed"
          /\ io.opens < MaxOpens
          /\ io' = [io EXCEPT !.opens = @ + 1,
                              !.reader = IF io.target = "none" THEN "missing" ELSE "open"]
       \/ /\ io.reader = "open"
          /\ io' = [io EXCEPT !.reader = "read"]
       \/ /\ io.reader \in {"read", "missing"}
          /\ io' = [io EXCEPT !.reader = "closed"]
    /\ UNCHANGED <<remoteVars, diskVars, runVars, retry, walk>>

\* is_file_locked, lines 44-55: False without win32file; with it, the
\* exclusive open fails exactly when another process holds the file open
is_file_locked == io.platform = "windows+pywin32" /\ Holding

\* lines 255-258: the open-file test, made only where win32file was imported
SaveCheck ==
    /\ io.save = "check"
    /\ io' = [io EXCEPT !.save =
                 IF io.target # "none" /\ io.platform = "windows+pywin32" /\ is_file_locked
                 THEN "skipped" ELSE "write"]
    /\ UNCHANGED <<remoteVars, diskVars, runVars, retry, walk>>

\* lines 259-260: the snapshot goes to the temporary file
SaveWriteTemp ==
    /\ io.save = "write"
    /\ io' = [io EXCEPT !.temp = TRUE, !.save = "remove"]
    /\ UNCHANGED <<remoteVars, diskVars, runVars, retry, walk>>

\* lines 263-264: os.remove of the snapshot file; Windows refuses to remove a
\* file another process holds open (PermissionError, raised again at line
\* 269), a POSIX system unlinks it
SaveRemove ==
    /\ io.save = "remove"
    /\ IF io.target = "none"
       THEN io' = [io EXCEPT !.save = "rename"]
       ELSE IF Holding /\ io.platform # "posix"
       THEN io' = [io EXCEPT !.save = "raised"]
       ELSE io' = [io EXCEPT !.target = "none", !.save = "rename",
                             !.disturbed = @ \/ Holding]
    /\ UNCHANGED <<remoteVars, diskVars, runVars, retry, walk>>

\* line 265: os.rename of the temporary file to the snapshot path
SaveRename ==
    /\ io.save = "rename"
    /\ io' = [io EXCEPT !.target = "new", !.temp = FALSE, !.save = "done",
                        !.disturbed = @ \/ Holding]
    /\ UNCHANGED <<remoteVars, diskVars, runVars, retry, walk>>

SaveInit ==
    /\ io \in {[NoIo EXCEPT !.platform = p, !.save = "check"] : p \in Platforms}
    /\ retry = NoRetry
    /\ walk = NoWalk
    /\ tree = InitTree
    /\ feed = <<>>
    /\ opsLeft = 0
    /\ dbFile = [state |-> "valid", data |-> InitSnapshot]
    /\ tokenFile = NoToken
    /\ credentials = TRUE
    /\ pc = "save"
    /\ runs = 0
    /\ last_folders = EmptySnapshot
    /\ folder_structure = EmptySnapshot
    /\ use_changes = FALSE
    /\ change_token = NoToken
    /\ changes = <<>>
    /\ new_change_token = NoToken
    /\ maps = NoMaps
    /\ new_changes = <<>>
    /\ change_count = 0
    /\ hist = NoHist

SaveNext == Reader \/ SaveCheck \/ SaveWriteTemp \/ SaveRemove \/ SaveRename

SaveSpec == SaveInit /\ [][SaveNext]_vars

-----------------------------------------------------------------------------
(* find_game_and_path, lookup by lookup: a ninth specification *)

\* the folders of the parent graphs the walk is drawn over
WalkFolders == {"d1", "g1", "s1"}

\* parent graphs: every folder has any folder, itself included, the root or
\* nothing as its first parent, and sub (s1) carries its name or IgnoreName
WalkGraphs ==
    {[id \in Nodes |->
         IF id \in WalkFolders
         THEN Node(IF id = "s1" THEN name ELSE InitTree[id].name, parent[id], "live")
         ELSE InitTree[id]] :
       parent \in [WalkFolders -> WalkFolders \cup {ROOT_FOLDER_ID, NoParent}],
       name \in {"sub", IgnoreName}}

\* WalkStep without the step budget
WalkStepUnbounded ==
    /\ walk.result = "walking"
    /\ IF walk.current_id # NoParent /\ walk.current_id \notin walk.game_ids
       THEN LET folder_info == tree[walk.current_id]
            IN walk' = IF folder_info.name = IgnoreName \/ folder_info.parent = NoParent
                       THEN [walk EXCEPT !.steps = @ + 1, !.result = "unresolved"]
                       ELSE [walk EXCEPT !.steps = @ + 1,
                                         !.path_parts = Append(@, folder_info.name),
                                         !.current_id = folder_info.parent]
       ELSE walk' = [walk EXCEPT !.result = "resolved", !.segments = Reverse(walk.path_parts)]
    /\ UNCHANGED <<remoteVars, diskVars, runVars, retry, io>>

\* WalkStep that returns the names in the order the walk met them
WalkStepLeafFirst ==
    /\ walk.result = "walking"
    /\ IF walk.current_id # NoParent /\ walk.current_id \notin walk.game_ids
                                     /\ walk.steps < MaxSteps
       THEN LET folder_info == tree[walk.current_id]
            IN walk' = IF folder_info.name = IgnoreName \/ folder_info.parent = NoParent
                       THEN [walk EXCEPT !.steps = @ + 1, !.result = "unresolved"]
                       ELSE [walk EXCEPT !.steps = @ + 1,
                                         !.path_parts = Append(@, folder_info.name),
                                         !.current_id = folder_info.parent]
       ELSE walk' = IF walk.current_id \notin walk.game_ids
                    THEN [walk EXCEPT !.result = "unresolved"]
                    ELSE [walk EXCEPT !.result = "resolved", !.segments = walk.path_parts]
    /\ UNCHANGED <<remoteVars, diskVars, runVars, retry, io>>

\* lines 163-182: one turn of the while loop (one parent lookup), or the
\* return after it; an HttpError of the lookup is caught and gives None
WalkStep ==
    /\ walk.result = "walking"
    /\ IF walk.current_id # NoParent /\ walk.current_id \notin walk.game_ids
                                     /\ walk.steps < MaxSteps
       THEN \E http_error \in BOOLEAN :
              LET folder_info == tree[walk.current_id]
              IN walk' =
                   IF http_error
                   THEN [walk EXCEPT !.steps = @ + 1, !.http_error = TRUE,
                                     !.result = "unresolved"]
                   ELSE IF folder_info.name = IgnoreName \/ folder_info.parent = NoParent
                   THEN [walk EXCEPT !.steps = @ + 1, !.result = "unresolved"]
                   ELSE [walk EXCEPT !.steps = @ + 1,
                                     !.path_parts = Append(@, folder_info.name),
                                     !.current_id = folder_info.parent]
       ELSE walk' = IF walk.current_id \notin walk.game_ids
                    THEN [walk EXCEPT !.result = "unresolved"]
                    ELSE [walk EXCEPT !.result = "resolved",
                                      !.segments = Reverse(walk.path_parts)]
    /\ UNCHANGED <<remoteVars, diskVars, runVars, retry, io>>

WalkInit ==
    /\ tree \in WalkGraphs
    /\ \E start \in WalkFolders, game_ids \in SUBSET WalkFolders :
         walk = [NoWalk EXCEPT !.game_ids = game_ids, !.start = start,
                               !.current_id = start, !.result = "walking"]
    /\ retry = NoRetry
    /\ io = NoIo
    /\ feed = <<>>
    /\ opsLeft = 0
    /\ dbFile = [state |-> "valid", data |-> InitSnapshot]
    /\ tokenFile = NoToken
    /\ credentials = TRUE
    /\ pc = "apply"
    /\ runs = 0
    /\ last_folders = EmptySnapshot
    /\ folder_structure = EmptySnapshot
    /\ use_changes = FALSE
    /\ change_token = NoToken
    /\ changes = <<>>
    /\ new_change_token = NoToken
    /\ maps = NoMaps
    /\ new_changes = <<>>
    /\ change_count = 0
    /\ hist = NoHist

WalkSpec == WalkInit /\ [][WalkStep]_vars

\* a walk under way makes its next lookup
WalkFairSpec == WalkSpec /\ WF_vars(WalkStep)

-----------------------------------------------------------------------------
(* An installation with two developers: a sixth specification *)

\* Beta (d2) is a developer and holds Foo (g1) with sub (s1) and both files;
\* Acme (d1) holds no game yet
TwoDevTree ==
    [InitTree EXCEPT !["d2"].parent = ROOT_FOLDER_ID, !["g1"].parent = "d2"]

\* the snapshot of a full scan of that installation, enriched by the operator
TwoDevDevelopers ==
    LET fresh == scan(TwoDevTree)
    IN [i \in 1..Len(fresh) |->
          [fresh[i] EXCEPT !.games =
              [j \in 1..Len(fresh[i].games) |->
                  [fresh[i].games[j] EXCEPT !.extra = InitExtra]]]]

TwoDevInit ==
    /\ tree = TwoDevTree
    /\ feed = <<>>
    /\ opsLeft = MaxRemoteOps
    /\ dbFile = [state |-> "valid",
                 data |-> [InitSnapshot EXCEPT !.developers = TwoDevDevelopers]]
    /\ tokenFile = StartPageToken(<<>>)
    /\ credentials = TRUE
    /\ pc = "idle"
    /\ runs = 0
    /\ last_folders = EmptySnapshot
    /\ folder_structure = EmptySnapshot
    /\ use_changes = FALSE
    /\ change_token = NoToken
    /\ changes = <<>>
    /\ new_change_token = NoToken
    /\ maps = NoMaps
    /\ new_changes = <<>>
    /\ change_count = 0
    /\ hist = NoHist
    /\ retry = NoRetry
    /\ io = NoIo
    /\ walk = NoWalk

TwoDevSpec == TwoDevInit /\ [][Next]_vars

-----------------------------------------------------------------------------
(* Views of a catalog *)

DevIdsOf(devs) == [i \in 1..Len(devs) |-> devs[i].id]
GameIdsOf(devs) == [i \in 1..Len(GameEntries(devs)) |-> GameEntries(devs)[i].id]
FileIdsOf(devs) == [i \in 1..Len(FileEntries(devs)) |-> FileEntries(devs)[i].id]

NoRepeat(s) == \A i, j \in 1..Len(s) : s[i] = s[j] => i = j

\* developers, games under each developer, file ids and paths under each game
Structure(devs) ==
    [developers |-> {<<devs[i].name, devs[i].id>> : i \in 1..Len(devs)},
     games |-> {<<e.dev, e.game, e.id>> : e \in Range(GameEntries(devs))},
     files |-> {<<e.dev, e.game, e.id, e.file.path>> : e \in Range(FileEntries(devs))}]

\* the run was incremental from the snapshot of a full scan and its token, no
\* remote call failed, and the remote store is as the poll saw it
ReconciledFromScan ==
    /\ pc = "metadata"
    /\ hist.polled # NoToken
    /\ ~hist.failed
    /\ hist.loaded = InitDevelopers
    /\ change_token = StartPageToken(<<>>)
    /\ StartPageToken(feed) = hist.polled

-----------------------------------------------------------------------------
(* The claims *)

\* C1 (convergence): reconciling the snapshot of a full scan of T0 with the
\* changes T0 -> T gives the developers, games, file ids and paths of a full
\* scan of T.
C1_Convergence ==
    ReconciledFromScan =>
        Structure(folder_structure.developers) = Structure(scan(tree))

\* C2 (identity uniqueness): at every point of a run each remote id occurs at
\* most once in the catalog, as a developer, a game or a file.
C2_IdentityUnique ==
    NoRepeat(DevIdsOf(folder_structure.developers)
             \o GameIdsOf(folder_structure.developers)
             \o FileIdsOf(folder_structure.developers))

\* C3 (token written last): the token file changes only in the last step of a
\* run, after save_database returned; a run that raises or is killed before
\* leaves the token it found, and the run that follows loads that token and
\* polls the changes from it.
C3_TokenWrittenLast ==
    [][/\ tokenFile' # tokenFile =>
            /\ pc = "token" /\ pc' = "done"
            /\ hist.saved \in {"written", "locked"}
       /\ (pc \notin {"idle", "done"} /\ pc' = "idle") =>
            tokenFile' = hist.tokenAtStart
       /\ (pc = "idle" /\ pc' \in {"poll", "fullscan"}) => change_token' = tokenFile
       /\ (pc = "poll" /\ pc' = "apply") =>
            changes' = get_changes(tree, feed, tokenFile).changes]_vars

\* a run ended with the snapshot written and the token advanced
C3_Witness ==
    /\ pc = "done"
    /\ hist.saved = "written"
    /\ tokenFile # hist.tokenAtStart
    /\ tokenFile = new_change_token

\* C4 (token safety): after the incremental mode raised, the token the run
\* returns and persists is the start token the fallback full scan fetched.
C4_TokenSafety ==
    hist.fellBack =>
        /\ pc \in {"metadata", "save", "token", "done"} =>
               new_change_token = hist.scanToken
        /\ pc = "done" => tokenFile = hist.scanToken

\* the poll succeeded, the loop raised, the remote store changed in between and
\* the run persisted the token of the fallback scan
C4_Witness ==
    /\ pc = "done"
    /\ hist.fellBack
    /\ hist.polled # NoToken
    /\ hist.scanToken # hist.polled
    /\ tokenFile = hist.scanToken

\* C5 (fallback from the untouched snapshot): the catalog a fallback returns
\* is the catalog of a direct full scan of the same tree given the snapshot
\* as loaded.
C5_FallbackFromLoaded ==
    (pc = "metadata" /\ hist.fellBack) =>
        folder_structure.developers = merge(scan(tree), hist.loaded)

\* C6 (extras survive a full rescan): after a full scan, direct or fallback,
\* a game whose id was in the loaded snapshot carries every extra field the
\* loaded game had.
C6_ExtrasSurviveRescan ==
    (pc = "metadata" /\ hist.scanToken # NoToken) =>
        \A g \in Range(GameEntries(folder_structure.developers)) :
            \A prior \in Range(GameEntries(hist.loaded)) :
                prior.id = g.id => prior.extra \subseteq g.extra

\* C7 (extras survive incremental updates): after an incremental run, a game
\* of the catalog whose folder is still in the remote tree carries exactly the
\* extra fields it had in the loaded snapshot.
C7_ExtrasSurviveIncremental ==
    (pc = "metadata" /\ hist.polled # NoToken /\ ~hist.fellBack /\ ~hist.failed) =>
        \A g \in Range(GameEntries(folder_structure.developers)) :
            \A prior \in Range(GameEntries(hist.loaded)) :
                (prior.id = g.id /\ tree[g.id].st = "live" /\ ~Trashed(tree, g.id))
                    => g.extra = prior.extra

\* C8 (bounded changelog): the snapshot a run returns holds at most 10 entries
\* in metadata.recent_changes.
C8_BoundedChangelog ==
    pc \in {"save", "token", "done"} =>
        Len(folder_structure.metadata.recent_changes) <= MaxRecent

\* C9 (a failed remote call never costs a file): a run in which a remote call
\* of the incremental mode failed for good and which persisted its snapshot
\* has dropped no file of the loaded snapshot that is still listed under a game
\* of the persisted catalog.
C9_NoFileLostOnFailure ==
    (/\ pc = "done" /\ hist.saved = "written" /\ hist.failed
     /\ hist.polled # NoToken /\ StartPageToken(feed) = hist.polled) =>
        \A f \in Range(FileIdsOf(hist.loaded)) :
            (\E g \in Range(GameIdsOf(dbFile.data.developers)) :
                \E r \in Range(recursive_list_files_with_path(tree, g, <<>>)) : r.id = f)
            => f \in Range(FileIdsOf(dbFile.data.developers))

\* C10 (snapshot write conflict): after save_database skipped the write of an
\* incremental run, the token file is not ahead of the snapshot file: a poll
\* from it returns the changes a poll from the token the run found returns.
C10_TokenKeptOnSkippedSave ==
    (pc = "done" /\ hist.saved = "locked" /\ hist.tokenAtStart # NoToken) =>
        get_changes(tree, feed, tokenFile).changes
            = get_changes(tree, feed, hist.tokenAtStart).changes

\* C11 (atomic save): after save_database stopped on the way, by an exception
\* or the end of the process, the snapshot path holds a complete snapshot.
C11_AtomicSave ==
    (pc = "failed" /\ hist.raised = "save") => dbFile.state = "valid"

\* a catalog as the sets of its developers, games with their extras, and files
\* with their paths, and the number of its game and file entries
Catalog(devs) ==
    [developers |-> {<<devs[i].name, devs[i].id>> : i \in 1..Len(devs)},
     games |-> {<<e.dev, e.game, e.id, Get(GamesOf(devs, e.dev), e.game).extra>> :
                    e \in Range(GameEntries(devs))},
     files |-> {<<e.dev, e.game, e.file>> : e \in Range(FileEntries(devs))},
     entries |-> <<Len(devs), Len(GameEntries(devs)), Len(FileEntries(devs))>>]

\* an incremental run with no failed call has applied its changes to the
\* snapshot an earlier such run wrote from the same token and the same poll
\* (that run ended before it saved its token), the remote store unchanged
RerunAfterCrash ==
    /\ pc = "metadata"
    /\ dbFile.state = "valid"
    /\ hist.loaded = dbFile.data.developers
    /\ hist.polled # NoToken /\ ~hist.failed /\ ~hist.fellBack
    /\ hist.prev.polled = hist.polled
    /\ hist.prev.tokenAtStart = hist.tokenAtStart
    /\ StartPageToken(feed) = hist.polled

\* C12 (re-running after a crash is idempotent): the run that follows a crash
\* between the save of the snapshot and the save of the token ends with the
\* catalog the crashed run wrote.
C12_RerunIdempotent ==
    RerunAfterCrash =>
        Catalog(folder_structure.developers) = Catalog(dbFile.data.developers)

\* a folder named IgnoreName lies between the file and its game folder
UnderIgnored(t, file_id, game_id) ==
    \E a \in Ancestors(t, file_id) :
        /\ t[a].name = IgnoreName
        /\ game_id \in Ancestors(t, a)

\* the run reached the end of a full scan, or of an incremental mode in which
\* no remote call failed, and the remote store is as the run saw it
InSync ==
    /\ pc = "metadata"
    /\ ~hist.failed
    /\ StartPageToken(feed) = new_change_token

\* C13 (path exclusion): no file of the catalog lies under a folder named
\* IgnoreName inside its game, and no path holds that segment.
C13_PathExclusion ==
    InSync =>
        \A e \in Range(FileEntries(folder_structure.developers)) :
            /\ ~UnderIgnored(tree, e.id,
                   Get(GamesOf(folder_structure.developers, e.dev), e.game).id)
            /\ IgnoreName \notin Range(e.file.path)

\* the next event of the loop is a folder event for a known developer id that
\* still lies in the root and carries another name than the stored one
IsDeveloperRename(change, m) ==
    /\ ~change.removed /\ change.hasFile /\ ~change.trashed /\ change.folder
    /\ change.fileId \in DOMAIN m.dev_id_to_name
    /\ change.parents = <<ROOT_FOLDER_ID>>
    /\ change.name # m.dev_id_to_name[change.fileId]

\* C14 (rename detection): applying a folder event for a known developer id
\* whose parent is still the root and whose name differs from the stored one
\* re-keys the developer: the old name is absent afterwards, the new name holds
\* the same id and the same games (with their files and extras), and exactly one
\* RENAMED DEVELOPER entry is appended to the changelog.
C14_RenameDetection ==
    [][ (/\ pc = "apply" /\ changes # <<>>
         /\ IsDeveloperRename(Head(changes), maps)
         /\ pc' = "apply" /\ changes' = Tail(changes))
        => LET change == Head(changes)
               old_name == maps.dev_id_to_name[change.fileId]
               before == Get(folder_structure.developers, old_name)
               devs == folder_structure.developers'
           IN /\ ~HasKey(devs, old_name)
              /\ HasKey(devs, change.name)
              /\ Get(devs, change.name).id = before.id
              /\ Get(devs, change.name).id = change.fileId
              /\ Get(devs, change.name).games = before.games
              /\ new_changes' = Append(new_changes,
                                      <<"RENAMED DEVELOPER", old_name, change.name>>) ]_vars

C14_Witness ==
    /\ pc = "apply"
    /\ new_changes # <<>>
    /\ new_changes[Len(new_changes)] = <<"RENAMED DEVELOPER", "Acme", "Old">>
    /\ HasKey(folder_structure.developers, "Old")
    /\ ~HasKey(folder_structure.developers, "Acme")
    /\ \E g \in Range(Get(folder_structure.developers, "Old").games) :
          g.extra = InitExtra /\ g.files # <<>>

\* a Removed/Trashed event for an id the catalog holds nowhere
IsAbsentRemoval(change, devs) ==
    /\ change.removed \/ (change.hasFile /\ change.trashed)
    /\ change.fileId \notin {devs[i].id : i \in 1..Len(devs)}
    /\ change.fileId \notin {e.id : e \in Range(GameEntries(devs))}
    /\ change.fileId \notin {e.id : e \in Range(FileEntries(devs))}

\* C15 (deletion idempotence): applying a Removed/Trashed event for an id that
\* is in no file list and is no developer or game id leaves the developers
\* tree and the changelog as they are and is not counted as a change, whatever
\* was applied before it in the run.
C15_DeletionIdempotence ==
    [][ (/\ pc = "apply" /\ changes # <<>>
         /\ IsAbsentRemoval(Head(changes), folder_structure.developers)
         /\ pc' = "apply" /\ changes' = Tail(changes))
        => /\ folder_structure'.developers = folder_structure.developers
           /\ new_changes' = new_changes
           /\ change_count' = change_count ]_vars

\* the run has applied the events of the scenario and nothing else: patch.zip
\* (f1) trashed, then patch_v2.zip (f2) uploaded into sub (s1), with or without
\* an event for the creation of sub
ScenarioApplied ==
    /\ pc = "metadata"
    /\ hist.polled # NoToken /\ ~hist.failed /\ ~hist.fellBack
    /\ hist.loaded = ScenarioDevelopers
    /\ hist.tokenAtStart = StartPageToken(<<>>)
    /\ feed \in {<<"f1", "f2">>, <<"f1", "s1", "f2">>, <<"s1", "f1", "f2">>}
    /\ hist.applied = Len(feed)
    /\ tree["f1"] = Node("patch.zip", "g1", "trashed")
    /\ tree["s1"] = Node("sub", "g1", "live")
    /\ tree["f2"] = Node("patch_v2.zip", "s1", "live")

\* C16 (scenario): from the snapshot Acme (d1) -> Foo (g1, notes=v1) ->
\* patch.zip (f1), the events [f1 trashed; f2 patch_v2.zip with parent sub, a
\* new folder inside g1], with or without a folder event for sub, leave Foo
\* without f1 and with f2 at path sub/patch_v2.zip, its extras unchanged, and
\* the changelog of the run is one REMOVED FILE entry followed by one UPDATED
\* FILE entry.
C16_Scenario ==
    ScenarioApplied =>
        LET devs == folder_structure.developers
        IN /\ Len(devs) = 1
           /\ devs[1].name = "Acme" /\ devs[1].id = "d1"
           /\ Len(devs[1].games) = 1
           /\ devs[1].games[1].name = "Foo" /\ devs[1].games[1].id = "g1"
           /\ devs[1].games[1].files =
                  <<FileRecord("f2", "patch_v2.zip", <<"sub", "patch_v2.zip">>)>>
           /\ devs[1].games[1].extra = InitExtra
           /\ new_changes = << <<"REMOVED FILE", "Acme", "Foo", "patch.zip">>,
                               <<"UPDATED FILE", "Foo", "patch_v2.zip">> >>

C16_Witness ==
    /\ ScenarioApplied
    /\ feed = <<"f1", "s1", "f2">>
    /\ Len(new_changes) = 2
    /\ FileIdsOf(folder_structure.developers) = <<"f2">>

\* a run leaves main's first lines: the step of StartRun
Starts == pc = "idle" /\ pc' # "idle"

\* C17 (load never raises): for every state of the snapshot file
\* load_last_folders returns a value and the run goes on; for a missing file
\* and for a file that fails validation (unreadable, no JSON) the value is the
\* empty skeleton and the run performs a full scan, as it does for JSON that is
\* no object and for an object without developers.
C17_LoadNeverRaises ==
    [][ (Starts /\ credentials)
        => /\ pc' \in {"poll", "fullscan"}
           /\ last_folders' = load_last_folders(dbFile)
           /\ ~is_valid_json(dbFile) => last_folders' = EmptySnapshot
           /\ dbFile.state = "nonobject" => last_folders' = EmptySnapshot
           /\ dbFile.state # "valid" => /\ last_folders'.developers = <<>>
                                        /\ pc' = "fullscan"
                                        /\ ~use_changes' ]_vars

C17_Witness ==
    /\ pc = "scan"
    /\ dbFile.state = "invalid"
    /\ hist.tokenAtStart # NoToken
    /\ hist.loaded = <<>>
    /\ hist.polled = NoToken

\* the run in progress met the condition of the incremental mode
MetIncremental == hist.tokenAtStart # NoToken /\ hist.loaded # <<>>

\* C18 (mode selection): a run attempts the incremental reconciliation if and
\* only if a non-empty token was loaded and the loaded snapshot has at least one
\* developer; in every other case it goes to the full scan and never polls the
\* change feed.
C18_ModeSelection ==
    pc \notin {"idle", "failed"} =>
        IF MetIncremental
        THEN pc = "poll" \/ hist.polled # NoToken \/ hist.fellBack
        ELSE /\ pc \notin {"poll", "apply"}
             /\ hist.polled = NoToken
             /\ ~hist.fellBack
             /\ changes = <<>>

C18_Witness ==
    /\ pc = "metadata"
    /\ hist.tokenAtStart # NoToken
    /\ hist.loaded = <<>>
    /\ hist.polled = NoToken
    /\ hist.scanToken # NoToken
    /\ dbFile.state = "nodevelopers"

\* C19 (missing credentials): without the credentials file a run exits with an
\* error at its first step; no remote call is reached and neither the snapshot
\* file nor the token file is written.
C19_MissingCredentialsFatal ==
    [][ ~credentials
        => /\ pc' \in {"idle", "failed"}
           /\ Starts => pc' = "failed" /\ hist'.raised = "auth"
           /\ dbFile' = dbFile
           /\ tokenFile' = tokenFile ]_vars

C19_Witness ==
    /\ ~credentials
    /\ pc = "failed"
    /\ hist.raised = "auth"
    /\ dbFile.state = "valid"
    /\ tokenFile # NoToken

\* C20 (a permanent remote error aborts before any persist): a remote error in
\* the full scan, entered directly or by the fallback, ends the run with an
\* error; up to that point and after it no step of the run writes the snapshot
\* file or the token file, so both are as the run found them.
C20_ErrorAbortsBeforePersist ==
    [][ /\ pc \in {"idle", "poll", "apply", "fullscan", "scan"}
           => dbFile' = dbFile /\ tokenFile' = tokenFile
        /\ (pc \in {"fullscan", "scan"} /\ pc' = "failed")
           => /\ hist'.raised = pc
              /\ tokenFile' = hist.tokenAtStart
              /\ hist'.tokenAtStart = hist.tokenAtStart
        /\ (pc = "failed" /\ hist.raised \in {"fullscan", "scan"})
           => /\ pc' = "idle"
              /\ dbFile' = dbFile
              /\ tokenFile' = tokenFile
              /\ tokenFile = hist.tokenAtStart ]_vars

C20_Witness ==
    /\ pc = "failed"
    /\ hist.raised = "scan"
    /\ hist.fellBack
    /\ hist.tokenAtStart # NoToken
    /\ tokenFile = hist.tokenAtStart
    /\ dbFile.state = "valid"
    /\ feed # <<>>

\* the attempts made so far all failed with a status that is retried
AllRetried(n) ==
    \A i \in 1..n : /\ retry.responses[i].kind = "HttpError"
                     /\ retry.responses[i].status \in {429, 500}

\* at most MAX_RETRIES attempts; a returned response is that of the first
\* successful attempt, which is the last attempt made; the helper has raised
\* once the last allowed attempt failed
BoundedAttempts ==
    /\ retry.attempt <= MAX_RETRIES
    /\ retry.result = "pending" => retry.attempt < MAX_RETRIES
    /\ retry.result = "returned" =>
           /\ retry.response = retry.attempt
           /\ retry.responses[retry.response].kind = "response"
           /\ \A i \in 1..(retry.response - 1) :
                  retry.responses[i].kind # "response"
    /\ (retry.attempt = MAX_RETRIES
           /\ retry.responses[MAX_RETRIES].kind # "response")
          => retry.result = "raised"
    /\ retry.result = "raised" =>
           retry.responses[retry.attempt].kind # "response"

\* C21 (bounded retry): a request is attempted at most MAX_RETRIES times; the
\* helper returns the response of the first successful attempt and attempts
\* nothing after it; it raises once the last allowed attempt failed; and every
\* call ends, returning or raising.
C21_BoundedRetry ==
    []BoundedAttempts /\ <>(retry.result \in {"returned", "raised"})

C21_Witness ==
    /\ retry.result = "raised"
    /\ retry.attempt = MAX_RETRIES
    /\ AllRetried(MAX_RETRIES)
    /\ retry.responses[MaxResponses].kind = "response"

\* C22 (retry classification): a failure with status 429 or with any 5xx
\* status is retried while attempts remain, after a delay that doubles from
\* one attempt to the next (1s, then 2s); a failure with any other status
\* propagates at once.
C22_RetryClassification ==
    [][ (retry.result = "pending" /\ retry.attempt < MAX_RETRIES
           /\ retry.responses[retry.attempt + 1].kind = "HttpError")
        => LET status == retry.responses[retry.attempt + 1].status
               transient == status = 429 \/ (status >= 500 /\ status <= 599)
           IN IF transient /\ retry.attempt < MAX_RETRIES - 1
              THEN /\ retry'.result = "pending"
                   /\ retry'.slept = Append(retry.slept, Pow2(retry.attempt))
              ELSE /\ retry'.result = "raised"
                   /\ retry'.slept = retry.slept ]_vars

\* the number of entries of id in a file list
Occurrences(files, id) == Len(SelectSeq(files, LAMBDA f : f.id = id))

\* the ids of the games a catalog holds
KnownGames(devs) == {e.id : e \in Range(GameEntries(devs))}

\* the next event of the loop is about a tracked file that lies directly in
\* a game folder this run added to the catalog
FileOfNewGame ==
    /\ pc = "apply"
    /\ changes # <<>>
    /\ LET change == Head(changes)
       IN /\ ~change.removed /\ change.hasFile /\ ~change.trashed /\ ~change.folder
          /\ Suffix(change.name) \in TrackedExt
          /\ change.parents # <<>>
          /\ change.parents[1] \in KnownGames(folder_structure.developers)
                                     \ KnownGames(hist.loaded)

\* C23 (feed order): the events of the poll are applied one at a time in the
\* order of the feed, and when the event of a file follows, in the same run,
\* the event that created its game folder, the game is in the catalog and
\* holds the file exactly once.
C23_FeedOrder ==
    [][ (pc = "apply" /\ pc' = "apply" /\ changes' # changes)
        => /\ changes' = Tail(changes)
           /\ (FileOfNewGame /\ ~hist'.failed)
               => LET change == Head(changes)
                      games == {e \in Range(GameEntries(folder_structure'.developers)) :
                                   e.id = change.parents[1]}
                  IN /\ games # {}
                     /\ \A e \in games : Occurrences(e.files, change.fileId) = 1 ]_vars

\* C24 (open-file check): however the reader's open, read and close of the
\* snapshot file interleave with the open-file test, the temp write, the remove and
\* the rename of save_database, the reader never finds the file missing and
\* the file is never removed or replaced while the reader holds it open.
C24_ReaderGuarded ==
    /\ io.reader # "missing"
    /\ ~io.disturbed

\* C25 (identity index freshness): when an event of the loop starts to be
\* processed, the three reverse maps equal the maps rebuilt from the catalog as
\* it is then, also after a file event that removed an entry and stopped.
C25_IndexFresh ==
    (pc = "apply" /\ changes # <<>>)
        => maps = build_id_maps(folder_structure.developers)

\* the next event of the loop is a file event that is not a removal, and the
\* step applies it with every parent lookup answered
FileEventApplied ==
    /\ pc = "apply" /\ pc' = "apply"
    /\ changes # <<>> /\ changes' = Tail(changes)
    /\ ~hist'.failed
    /\ LET change == Head(changes)
       IN ~change.removed /\ change.hasFile /\ ~change.trashed /\ ~change.folder

\* C26 (file event): after a file event for id f that is not a removal, f is
\* in the catalog exactly when the event carries a parent, the ancestry of the
\* parent reaches a known game and the extension is tracked; then f occurs
\* once, in the file list of that game, with the path of the walk followed by
\* the file name; otherwise f occurs nowhere.
C26_FileEvent ==
    [][ FileEventApplied
        => LET change == Head(changes)
               entries == SelectSeq(FileEntries(folder_structure'.developers),
                                    LAMBDA e : e.id = change.fileId)
               res == find_game_and_path(tree, change.parents[1],
                          DOMAIN maps.game_id_to_path, FALSE)
           IN IF change.parents # <<>> /\ res.found /\ Suffix(change.name) \in TrackedExt
              THEN /\ Len(entries) = 1
                   /\ <<entries[1].dev, entries[1].game>> = maps.game_id_to_path[res.game]
                   /\ entries[1].file.path = Append(res.parts, change.name)
              ELSE entries = <<>> ]_vars

\* the files a listing of game folder game_id finds in the remote store
ListedUnder(t, game_id) ==
    {f \in FileIds : /\ t[f].st = "live" /\ ~Trashed(t, f)
                     /\ game_id \in Ancestors(t, f)
                     /\ Suffix(t[f].name) \in TrackedExt
                     /\ ~UnderIgnored(t, f, game_id)}

\* the next event of the loop is a folder event, not a removal, for an id the
\* index does not know, and the step applies it with every remote call answered
NewFolderApplied ==
    /\ pc = "apply" /\ pc' = "apply"
    /\ changes # <<>> /\ changes' = Tail(changes)
    /\ LET change == Head(changes)
       IN /\ ~change.removed /\ change.hasFile /\ ~change.trashed /\ change.folder
          /\ change.parents # <<>>
          /\ change.fileId \notin DOMAIN maps.dev_id_to_name
                                     \cup DOMAIN maps.game_id_to_path

C28_NewGame ==
    [][ /\ (NewFolderApplied /\ Head(changes).parents[1] \in DOMAIN maps.dev_id_to_name)
            => LET change == Head(changes)
                   dev_name == maps.dev_id_to_name[change.parents[1]]
                   games == GamesOf(folder_structure'.developers, dev_name)
               IN /\ HasKey(games, change.name)
                  /\ Get(games, change.name).id = change.fileId
                  /\ {f.id : f \in Range(Get(games, change.name).files)}
                         = ListedUnder(tree, change.fileId)
        /\ (FileEventApplied /\ FileOfNewGame)
            => Len(SelectSeq(FileEntries(folder_structure'.developers),
                             LAMBDA e : e.id = Head(changes).fileId)) = 1 ]_vars

\* the ids a catalog holds: of its developers, games and files
IdsOf(devs) ==
    Range(DevIdsOf(devs)) \cup Range(GameIdsOf(devs)) \cup Range(FileIdsOf(devs))

\* the next event of the loop is a removal (permanent deletion or trashing) of
\* an id the catalog holds, and the step applies it
RemovalApplied ==
    /\ pc = "apply" /\ pc' = "apply"
    /\ changes # <<>> /\ changes' = Tail(changes)
    /\ LET change == Head(changes)
       IN /\ change.removed \/ (change.hasFile /\ change.trashed)
          /\ change.fileId \in IdsOf(folder_structure.developers)

\* C29 (removal): after a removal event for the id of a known developer, game
\* or file, the id occurs neither in the catalog nor in the identity index,
\* and the changelog has grown by exactly one entry, a REMOVED DEVELOPER,
\* REMOVED GAME or REMOVED FILE entry.
C29_Removal ==
    [][ RemovalApplied
        => LET id_ == Head(changes).fileId
           IN /\ id_ \notin IdsOf(folder_structure'.developers)
              /\ id_ \notin DOMAIN maps'.dev_id_to_name
                                \cup DOMAIN maps'.game_id_to_path
                                \cup DOMAIN maps'.file_id_to_game
              /\ Len(new_changes') = Len(new_changes) + 1
              /\ SubSeq(new_changes', 1, Len(new_changes)) = new_changes
              /\ new_changes'[Len(new_changes')][1]
                     \in {"REMOVED DEVELOPER", "REMOVED GAME", "REMOVED FILE"} ]_vars

\* the next event of the loop is a folder event, not a removal, for a known
\* developer that left the root or for a known game whose parent is missing or
\* is no known developer, and the step applies it
StructuralRemovalApplied ==
    /\ pc = "apply" /\ pc' = "apply"
    /\ changes # <<>> /\ changes' = Tail(changes)
    /\ LET change == Head(changes)
           parent == IF change.parents = <<>> THEN NoParent ELSE change.parents[1]
       IN /\ ~change.removed /\ change.hasFile /\ ~change.trashed /\ change.folder
          /\ IF change.fileId \in DOMAIN maps.dev_id_to_name
             THEN parent # ROOT_FOLDER_ID
             ELSE /\ change.fileId \in DOMAIN maps.game_id_to_path
                  /\ parent = NoParent \/ parent \notin DOMAIN maps.dev_id_to_name

\* C30 (structural removal): such a folder event leaves the catalog, the
\* changelog and the identity index as a Removed event for the same id would,
\* with one REMOVED DEVELOPER or REMOVED GAME entry more in the changelog, and
\* the id is then neither in the catalog nor in the index.
C30_StructuralRemoval ==
    [][ StructuralRemovalApplied
        => LET id_ == Head(changes).fileId
               removed == RemovalEvent([Head(changes) EXCEPT !.removed = TRUE], Reconciler)
           IN /\ folder_structure'.developers = removed.developers
              /\ new_changes' = removed.new_changes
              /\ maps' = removed.maps
              /\ Len(new_changes') = Len(new_changes) + 1
              /\ new_changes'[Len(new_changes')][1] \in {"REMOVED DEVELOPER", "REMOVED GAME"}
              /\ id_ \notin IdsOf(folder_structure'.developers)
              /\ id_ \notin DOMAIN maps'.dev_id_to_name \cup DOMAIN maps'.game_id_to_path ]_vars

\* C31 (game move/rename): a folder event for a known game id whose parent is
\* a known developer, with another owner or name than the stored one, leaves
\* the game id in the catalog exactly once, under the new developer and the
\* new name, with the files and extras it had, and logs one MOVED/RENAMED GAME
\* entry; with the same owner and name it changes and logs nothing.
C31_GameMove ==
    [][ (/\ pc = "apply" /\ pc' = "apply"
         /\ changes # <<>> /\ changes' = Tail(changes)
         /\ LET change == Head(changes)
            IN /\ ~change.removed /\ change.hasFile /\ ~change.trashed /\ change.folder
               /\ change.fileId \notin DOMAIN maps.dev_id_to_name
               /\ change.fileId \in DOMAIN maps.game_id_to_path
               /\ change.parents # <<>>
               /\ change.parents[1] \in DOMAIN maps.dev_id_to_name)
        => LET change == Head(changes)
               old == maps.game_id_to_path[change.fileId]
               new_dev == maps.dev_id_to_name[change.parents[1]]
               before == Get(GamesOf(folder_structure.developers, old[1]), old[2])
               entries == SelectSeq(GameEntries(folder_structure'.developers),
                                    LAMBDA e : e.id = change.fileId)
           IN IF old = <<new_dev, change.name>>
              THEN /\ folder_structure'.developers = folder_structure.developers
                   /\ new_changes' = new_changes
              ELSE /\ Len(entries) = 1
                   /\ <<entries[1].dev, entries[1].game>> = <<new_dev, change.name>>
                   /\ entries[1].files = before.files
                   /\ entries[1].extra = before.extra
                   /\ new_changes' = Append(new_changes,
                          <<"MOVED/RENAMED GAME", old[1], old[2], new_dev, change.name>>) ]_vars

\* the walk has made no more lookups than the budget, and it reports a game
\* only where it stands on a known game
WalkBounded ==
    /\ walk.steps <= MaxSteps
    /\ (walk.result = "resolved") => walk.current_id \in walk.game_ids

\* C32 (the ancestry walk terminates): for every parent graph, cyclic ones
\* included, find_game_and_path makes at most MaxSteps parent lookups and then
\* returns; a walk that used up the budget without reaching a known game
\* returns unresolved.
C32_WalkTerminates ==
    []WalkBounded /\ <>(walk.result \in {"resolved", "unresolved"})

\* a walk round a cycle of parents used up the budget and returned unresolved
C32_Witness ==
    /\ walk.result = "unresolved"
    /\ walk.steps = MaxSteps
    /\ ~walk.http_error
    /\ walk.current_id \notin walk.game_ids

\* the folder n first-parent links above id, NoParent beyond the top
RECURSIVE Up(_, _, _)
Up(t, id, n) ==
    IF n = 0 \/ id = NoParent THEN id ELSE Up(t, t[id].parent, n - 1)

\* C33 (ancestry result): with every lookup answered, the walk returns a game
\* exactly when the first-parent links from the start folder reach a known
\* game within the budget, over folders that are not named IgnoreName and
\* have a parent; the segments are then the names of the folders below the
\* game on that chain, from the game downwards, none when the start folder is
\* the game; find_game_and_path gives the same.
C33_WalkResult ==
    (walk.result \in {"resolved", "unresolved"} /\ ~walk.http_error)
    => LET c == [i \in 0..MaxSteps |-> Up(tree, walk.start, i)]
           reaches(k) ==
               /\ c[k] \in walk.game_ids
               /\ \A i \in 0..(k-1) : /\ c[i] \notin walk.game_ids
                                      /\ tree[c[i]].name # IgnoreName
                                      /\ tree[c[i]].parent # NoParent
           res == find_game_and_path(tree, walk.start, walk.game_ids, FALSE)
       IN /\ (walk.result = "resolved") <=> (\E k \in 0..MaxSteps : reaches(k))
          /\ \A k \in 0..MaxSteps :
                reaches(k) => /\ walk.current_id = c[k]
                              /\ walk.segments = [i \in 1..k |-> tree[c[k-i]].name]
          /\ res.found <=> (walk.result = "resolved")
          /\ res.found => (res.game = walk.current_id /\ res.parts = walk.segments)

\* the walk went up two folders and returned their names from the game down
C33_Witness ==
    /\ walk.result = "resolved"
    /\ walk.steps = 2
    /\ walk.segments = <<tree[tree[walk.start].parent].name, tree[walk.start].name>>
    /\ walk.segments[1] # walk.segments[2]

-----------------------------------------------------------------------------
(* The content of a full scan *)

\* the folder d2 outside the root carries the name of the developer folder d1
SameNameTree == [InitTree EXCEPT !["d2"].name = InitTree["d1"].name]

SameNameInit ==
    /\ tree = SameNameTree
    /\ feed = <<>>
    /\ opsLeft = MaxRemoteOps
    /\ dbFile = [state |-> "valid", data |-> InitSnapshot]
    /\ tokenFile \in {NoToken, StartPageToken(<<>>)}
    /\ credentials = TRUE
    /\ pc = "idle"
    /\ runs = 0
    /\ last_folders = EmptySnapshot
    /\ folder_structure = EmptySnapshot
    /\ use_changes = FALSE
    /\ change_token = NoToken
    /\ changes = <<>>
    /\ new_change_token = NoToken
    /\ maps = NoMaps
    /\ new_changes = <<>>
    /\ change_count = 0
    /\ hist = NoHist
    /\ retry = NoRetry
    /\ io = NoIo
    /\ walk = NoWalk

SameNameSpec == SameNameInit /\ [][Next]_vars

\* C34: a full scan whose listings are all answered returns every non-trashed
\* folder under the root as a developer with its id, every non-trashed subfolder
\* of a developer as a game of that developer with its id, and as the files of a
\* game exactly its non-trashed descendant files with a tracked extension that
\* lie under no ignored folder, each once and with the names from the game
\* folder down to the file as its path; the catalog is the one a second scan
\* of the same tree returns
C34_FullScan ==
    [][(pc = "scan" /\ pc' = "metadata") =>
        LET devs == folder_structure'.developers
            E == GameEntries(devs)
            under(p) == {c \in FolderIds : /\ tree[c].st = "live" /\ ~Trashed(tree, c)
                                           /\ tree[c].parent = p}
            depth(f, g) == CHOOSE k \in 1..Cardinality(Ids) : Up(tree, f, k) = g
            rel(f, g) == [i \in 1..depth(f, g) |-> tree[Up(tree, f, depth(f, g) - i)].name]
        IN /\ \A d \in under(ROOT_FOLDER_ID) :
                /\ \E i \in 1..Len(devs) : devs[i].id = d /\ devs[i].name = tree[d].name
                /\ \A g \in under(d) :
                      \E j \in 1..Len(E) :
                          /\ E[j].id = g /\ E[j].game = tree[g].name
                          /\ E[j].dev = tree[d].name
                          /\ {E[j].files[n].id : n \in 1..Len(E[j].files)}
                                 = ListedUnder(tree, g)
                          /\ Len(E[j].files) = Cardinality(ListedUnder(tree, g))
                          /\ \A n \in 1..Len(E[j].files) :
                                E[j].files[n].path = rel(E[j].files[n].id, g)
           /\ Structure(devs) = Structure(scan(tree))]_vars

-----------------------------------------------------------------------------
(* The changelog of a run that fell back *)

\* C35: a run whose incremental mode raised and that then scanned adds to the
\* changelog the full-rescan entry and nothing else: the recent_changes of the
\* snapshot it returns are those it loaded followed by that one entry
C35_FallbackChangelog ==
    (pc = "save" /\ hist.fellBack) =>
        folder_structure.metadata.recent_changes
            = load_last_folders(dbFile).metadata.recent_changes \o <<FullRescanEntry>>

-----------------------------------------------------------------------------
(* The start page token of a full scan *)

\* patch.zip (f1) is trashed after the listings of the run have been answered
RemoteTrashLate ==
    /\ opsLeft > 0
    /\ pc \in {"metadata", "save", "token"}
    /\ tree["f1"].st = "live"
    /\ tree' = [tree EXCEPT !["f1"].st = "trashed"]
    /\ feed' = Append(feed, "f1")
    /\ opsLeft' = opsLeft - 1
    /\ UNCHANGED <<diskVars, runVars, helperVars>>

LateSpec == Init /\ [][Next \/ RemoteTrashLate]_vars

\* C36: the token a full scan returns is the one fetched before its listings
\* and it is the token the run stores, so wherever the remote store is no longer
\* as the scan listed it, the change is in the feed from that token on; and the
\* poll of a run delivers every id of the feed from the token it started from
C36_BaselineToken ==
    /\ (pc \in {"metadata", "save", "token", "done"} /\ hist.scanToken # NoToken) =>
          /\ new_change_token = hist.scanToken
          /\ new_change_token <= StartPageToken(feed)
          /\ Structure(folder_structure.developers) # Structure(scan(tree))
                => new_change_token <= Len(feed)
          /\ pc = "done" => tokenFile = hist.scanToken
    /\ (pc = "apply" /\ hist.applied = 0 /\ ~hist.failed) =>
          /\ hist.tokenAtStart = change_token
          /\ {changes[i].fileId : i \in 1..Len(changes)}
                = {feed[i] : i \in change_token..(new_change_token - 1)}

\* a full scan has stored its token, and a file it listed was trashed while it
\* was listing or later
C36_Witness ==
    /\ pc = "done"
    /\ hist.scanToken # NoToken
    /\ tokenFile = hist.scanToken
    /\ tokenFile <= Len(feed)
    /\ feed[Len(feed)] = "f1"
    /\ \E e \in Range(FileEntries(folder_structure.developers)) : e.file.id = "f1"

-----------------------------------------------------------------------------
(* The version stamp *)

\* C37: a run that appended an entry to recent_changes counted a change and
\* stamped metadata.version with its own time
C37_VersionFollowsChangelog ==
    (pc = "save" /\ new_changes # <<>>) =>
        /\ change_count > 0
        /\ folder_structure.metadata.version = Now

-----------------------------------------------------------------------------
(* Entries of one name *)

\* C38: an event applied by the loop leaves every developer whose id is not the
\* event's in the catalog under its name, and with it every game whose id is
\* not the event's, under its name and with its extra fields, and for a folder
\* event with its files
C38_NoCollateralLoss ==
    [][(/\ pc = "apply" /\ pc' = "apply"
        /\ changes # <<>> /\ changes' = Tail(changes)
        /\ ~hist'.failed) =>
        LET ev == Head(changes)
            old == folder_structure.developers
            new == folder_structure'.developers
        IN \A i \in 1..Len(old) :
              old[i].id # ev.fileId =>
                 \E k \in 1..Len(new) :
                    /\ new[k].id = old[i].id
                    /\ new[k].name = old[i].name
                    /\ \A j \in 1..Len(old[i].games) :
                          old[i].games[j].id # ev.fileId =>
                             \E n \in 1..Len(new[k].games) :
                                /\ new[k].games[n].id = old[i].games[j].id
                                /\ new[k].games[n].name = old[i].games[j].name
                                /\ new[k].games[n].extra = old[i].games[j].extra
                                /\ ev.folder =>
                                      new[k].games[n].files = old[i].games[j].files]_vars

-----------------------------------------------------------------------------
(* The metadata-unification pass (unify_db.py) on the same snapshot file *)

\* the external catalog (patches_data.json): one entry, for the game Foo
PatchesEntry ==
    [appid |-> "", header_image |-> "", publisher |-> "P1", notes |-> "v1",
     store_status |-> ""]

\* whether get_entry_match finds the entry for a game of the snapshot
get_entry_match(folder_dev, folder_game) == folder_game = "Foo"

\* the body of the loop over the games: the five fields of the entry are
\* written, the two old game-level fields deleted, and every file gets a
\* last_updated field if it has none
UnifyGame(dev_name, game) ==
    IF ~get_entry_match(dev_name, game.name) THEN game
    ELSE LET kept == {p \in game.extra : p[1] \notin {"patch_version", "last_updated"}}
             dated(f) == [k \in DOMAIN f \cup {"last_updated"} |->
                             IF k \in DOMAIN f THEN f[k] ELSE ""]
         IN [game EXCEPT
                !.extra = UpdateExtra(kept, {<<k, PatchesEntry[k]>> : k \in DOMAIN PatchesEntry}),
                !.files = [n \in 1..Len(game.files) |-> dated(game.files[n])]]

\* unify_databases: the snapshot file is read, its games are enriched, and the
\* file is written again
unify_databases ==
    /\ dbFile.state = "valid"
    /\ dbFile.data.developers # <<>>
    /\ LET developers == dbFile.data.developers
       IN dbFile' = [dbFile EXCEPT !.data.developers =
             [i \in 1..Len(developers) |->
                 [developers[i] EXCEPT !.games =
                     [j \in 1..Len(developers[i].games) |->
                         UnifyGame(developers[i].name, developers[i].games[j])]]]]
    /\ UNCHANGED <<remoteVars, tokenFile, credentials, runVars, helperVars>>

UnifySpec == Init /\ [][Next \/ unify_databases]_vars

====
